---------------------------- MODULE Spec2Model ----------------------------
(***************************************************************************)
(* SoundPixel codecs (backend/codec_png.py, backend/codec_mp3.py,          *)
(* backend/encryption.py).                                                 *)
(*                                                                         *)
(* A byte buffer is a sequence of integers 0..255.  A Python str is a      *)
(* sequence of Unicode code points.  Offsets are kept 0-based as in the    *)
(* source: the Python slice b[i:j] is Slice(b, i, j).                      *)
(***************************************************************************)
EXTENDS Integers, Sequences, FiniteSets, TLC

----------------------------------------------------------------------------
(* Python bytes primitives                                                 *)

Min(a, b) == IF a < b THEN a ELSE b

\* b[i:j] with Python's clamping of both ends (0 <= i, 0 <= j)
Slice(b, i, j) == SubSeq(b, Min(i, Len(b)) + 1, Min(j, Len(b)))

\* bytes(n): n zero bytes
Zeros(n) == [k \in 1..n |-> 0]

Fill(n, v) == [k \in 1..n |-> v]

\* b[i:i+len(sub)] == sub, without building the slice
MatchAt(b, sub, i) ==
    /\ i >= 0
    /\ i + Len(sub) <= Len(b)
    /\ \A k \in 1..Len(sub) : b[i + k] = sub[k]

StartsWith(b, sub) == MatchAt(b, sub, 0)

EndsWith(b, sub) == MatchAt(b, sub, Len(b) - Len(sub))

\* b.rfind(sub, 0, end): highest index of an occurrence lying wholly before
\* end, or -1
RFind(b, sub, end) ==
    LET hits == {i \in 0..(Min(end, Len(b)) - Len(sub)) : MatchAt(b, sub, i)}
    IN  IF hits = {} THEN -1 ELSE CHOOSE i \in hits : \A j \in hits : j <= i

----------------------------------------------------------------------------
(* struct.pack / struct.unpack, big-endian                                 *)

RECURSIVE PackBE(_, _)
\* struct.pack(">H" / ">I" / ">Q", n): n as width big-endian bytes
PackBE(n, width) ==
    IF width = 0 THEN <<>>
    ELSE Append(PackBE(n \div 256, width - 1), n % 256)

\* Any value at least this large exceeds every buffer length of the model;
\* an unpacked integer is only ever compared with lengths, so larger values
\* are represented by it (a 64-bit field exceeds TLC's 32-bit integers).
Huge == 256 * 256 * 256

\* (hi << 8) | lo, kept at Huge once it is reached
ShiftIn ==
    [hi \in Nat, lo \in 0..255 |->
        IF hi >= Huge \div 256 THEN Huge ELSE hi * 256 + lo]

RECURSIVE UnpackFirst(_, _)
\* the integer the first n bytes of bs spell
UnpackFirst(bs, n) ==
    IF n = 0 THEN 0 ELSE ShiftIn[UnpackFirst(bs, n - 1), bs[n]]

\* struct.unpack(">H" / ">I" / ">Q", bs)[0]
UnpackBE(bs) == UnpackFirst(bs, Len(bs))

----------------------------------------------------------------------------
(* zlib.crc32: the table-driven CRC-32 (polynomial 0xEDB88320, reflected). *)
(* A 32-bit word is kept as its four big-endian bytes, which is also how   *)
(* struct.pack(">I", crc) lays it out in the header.                       *)

RECURSIVE XOR(_, _)
XOR(a, b) ==
    IF a = 0 THEN b
    ELSE IF b = 0 THEN a
    ELSE ((a + b) % 2) + 2 * XOR(a \div 2, b \div 2)

Xor4(x, y) == [k \in 1..4 |-> XOR(x[k], y[k])]

\* word >> 1
Shr1(w) ==
    << w[1] \div 2,
       (w[2] \div 2) + 128 * (w[1] % 2),
       (w[3] \div 2) + 128 * (w[2] % 2),
       (w[4] \div 2) + 128 * (w[3] % 2) >>

CrcPoly == <<237, 184, 131, 32>>

RECURSIVE CrcTableEntry(_, _)
CrcTableEntry(w, k) ==
    IF k = 0 THEN w
    ELSE CrcTableEntry(IF w[4] % 2 = 1 THEN Xor4(CrcPoly, Shr1(w)) ELSE Shr1(w),
                       k - 1)

CrcTable == [n \in 0..255 |-> CrcTableEntry(<<0, 0, 0, n>>, 8)]

RECURSIVE CrcUpdate(_, _, _)
\* crc = table[(crc ^ byte) & 0xFF] ^ (crc >> 8), over data[i..]
CrcUpdate(w, data, i) ==
    IF i > Len(data) \/ Len(w) # 4 THEN w
    ELSE CrcUpdate(Xor4(CrcTable[XOR(w[4], data[i])], <<0, w[1], w[2], w[3]>>),
                   data, i + 1)

\* zlib.crc32(data) & 0xFFFFFFFF
crc32(data) ==
    LET w == CrcUpdate(<<255, 255, 255, 255>>, data, 1)
    IN  [k \in 1..4 |-> 255 - w[k]]

----------------------------------------------------------------------------
(* str.encode("utf-8") and bytes.decode("utf-8", errors="replace")         *)

utf8_char(cp) ==
    IF cp < 128 THEN <<cp>>
    ELSE IF cp < 2048 THEN <<192 + (cp \div 64), 128 + (cp % 64)>>
    ELSE IF cp < 65536 THEN
        <<224 + (cp \div 4096), 128 + ((cp \div 64) % 64), 128 + (cp % 64)>>
    ELSE <<240 + (cp \div 262144), 128 + ((cp \div 4096) % 64),
           128 + ((cp \div 64) % 64), 128 + (cp % 64)>>

RECURSIVE utf8_encode(_)
\* the characters' encodings, concatenated (by halves, to keep the
\* evaluation shallow on long names)
utf8_encode(str) ==
    IF str = <<>> THEN <<>>
    ELSE IF Len(str) = 1 THEN utf8_char(str[1])
    ELSE LET h == Len(str) \div 2
         IN  utf8_encode(SubSeq(str, 1, h)) \o utf8_encode(SubSeq(str, h + 1, Len(str)))

\* U+FFFD, what errors="replace" puts for each undecodable run of bytes
REPLACEMENT == 65533

IsCont(b, i) == i <= Len(b) /\ b[i] >= 128 /\ b[i] <= 191

\* the second byte of a 3- or 4-byte sequence has a narrower range after
\* some lead bytes (no overlong forms, no surrogates, nothing above U+10FFFF)
IsSecond(b, i, lead) ==
    /\ i <= Len(b)
    /\ b[i] >= (IF lead = 224 THEN 160 ELSE IF lead = 240 THEN 144 ELSE 128)
    /\ b[i] <= (IF lead = 237 THEN 159 ELSE IF lead = 244 THEN 143 ELSE 191)

\* the character decoded at 1-based position i: <<code point, bytes consumed>>
utf8_decode_at(b, i) ==
    LET b0 == b[i]
    IN  IF b0 < 128 THEN <<b0, 1>>
        ELSE IF b0 >= 194 /\ b0 <= 223 THEN
            IF IsCont(b, i + 1)
            THEN <<(b0 - 192) * 64 + (b[i + 1] - 128), 2>>
            ELSE <<REPLACEMENT, 1>>
        ELSE IF b0 >= 224 /\ b0 <= 239 THEN
            IF ~IsSecond(b, i + 1, b0) THEN <<REPLACEMENT, 1>>
            ELSE IF ~IsCont(b, i + 2) THEN <<REPLACEMENT, 2>>
            ELSE <<(b0 - 224) * 4096 + (b[i + 1] - 128) * 64 + (b[i + 2] - 128), 3>>
        ELSE IF b0 >= 240 /\ b0 <= 244 THEN
            IF ~IsSecond(b, i + 1, b0) THEN <<REPLACEMENT, 1>>
            ELSE IF ~IsCont(b, i + 2) THEN <<REPLACEMENT, 2>>
            ELSE IF ~IsCont(b, i + 3) THEN <<REPLACEMENT, 3>>
            ELSE <<(b0 - 240) * 262144 + (b[i + 1] - 128) * 4096
                     + (b[i + 2] - 128) * 64 + (b[i + 3] - 128), 4>>
        ELSE <<REPLACEMENT, 1>>

\* Does the decoder, scanning left to right, begin a character at position
\* i?  It consumes bytes after a lead byte only while they are continuation
\* bytes, so a byte that is not a continuation byte always begins one, and a
\* continuation byte begins one (a replacement) unless the nearest lead byte
\* before it, at most three bytes back, consumed it.
utf8_starts_at(b, i) ==
    ~\E j \in (i - 3)..(i - 1) :
        /\ j >= 1
        /\ ~IsCont(b, j)
        /\ \A k \in (j + 1)..i : IsCont(b, k)
        /\ i < j + utf8_decode_at(b, j)[2]

\* bytes.decode("utf-8", errors="replace")
utf8_decode(b) ==
    LET starts == SelectSeq([i \in 1..Len(b) |-> i], LAMBDA i : utf8_starts_at(b, i))
    IN  [k \in 1..Len(starts) |-> utf8_decode_at(b, starts[k])[1]]

----------------------------------------------------------------------------
(* encryption.py                                                           *)

\* Python's None for an optional password; a password is otherwise a string
None == "<None>"

\* `not password`: None and the empty string are both falsy
Falsy(password) == password = None \/ password = ""

\* b"SPXLENC\x00"
ENC_MAGIC == <<83, 80, 88, 76, 69, 78, 67, 0>>
ENC_MAGIC_LEN == Len(ENC_MAGIC)
SALT_LEN == 16
NONCE_LEN == 16
TAG_LEN == 16
CIPHER_LEN_FIELD == 8
HEADER_LEN == ENC_MAGIC_LEN + SALT_LEN + NONCE_LEN + TAG_LEN + CIPHER_LEN_FIELD

\* PBKDF2-HMAC-SHA256 over (password, salt): distinct inputs give distinct keys
derive_key(password, salt) == <<password, salt>>

\* AES-256-GCM.  The cipher is deterministic in (key, nonce, plaintext) and
\* its output bytes are unconstrained; the table `sealed` holds every
\* encryption made so far, and cipher.decrypt authenticates exactly the
\* (key, nonce, ciphertext, tag) combinations that cipher.encrypt produced.
aesgcm_record(key, nonce, plaintext, ciphertext, tag) ==
    [key |-> key, nonce |-> nonce, pt |-> plaintext, ct |-> ciphertext, tag |-> tag]

\* can cipher.encrypt(nonce, plaintext) yield (ciphertext, tag), given what
\* the same key and nonce already produced
aesgcm_possible(sealed, rec) ==
    /\ Len(rec.ct) = Len(rec.pt)
    /\ Len(rec.tag) = TAG_LEN
    /\ \A r \in sealed :
        (r.key = rec.key /\ r.nonce = rec.nonce) =>
            /\ (r.pt = rec.pt) <=> (r.ct = rec.ct)
            /\ (r.pt = rec.pt) => (r.tag = rec.tag)

aesgcm_matches(sealed, key, nonce, ciphertext, tag) ==
    {r \in sealed : r.key = key /\ r.nonce = nonce /\ r.ct = ciphertext /\ r.tag = tag}

\* encrypt() leaving the tag where cipher.encrypt returns it, after the
\* ciphertext
encrypt_tag_last(plaintext, password, rnd) ==
    ENC_MAGIC \o rnd.salt \o rnd.nonce
        \o PackBE(Len(rnd.ct), CIPHER_LEN_FIELD) \o rnd.ct \o rnd.tag

\* encrypt() following the envelope with padding whose length is drawn at
\* random
encrypt_random_padding(plaintext, password, rnd) ==
    ENC_MAGIC \o rnd.salt \o rnd.nonce \o rnd.tag
        \o PackBE(Len(rnd.ct), CIPHER_LEN_FIELD) \o rnd.ct
        \o Zeros(IF rnd.salt[1] > 50 THEN 3 ELSE 0)

\* encrypt(plaintext, password) for the outcome rnd = [salt, nonce, ct, tag]
\* of os.urandom and of the cipher; the caller guarantees a truthy password
encrypt(plaintext, password, rnd) ==
    ENC_MAGIC \o rnd.salt \o rnd.nonce \o rnd.tag
        \o PackBE(Len(rnd.ct), CIPHER_LEN_FIELD) \o rnd.ct

Ok(value) == [kind |-> "ok", value |-> value]
Raise(kind) == [kind |-> kind, value |-> <<>>]

\* decrypt() going on without comparing the first bytes with MAGIC
decrypt_any_magic(sealed, encrypted_data, password) ==
    IF Falsy(password) THEN Raise("InvalidPasswordError")
    ELSE IF Len(encrypted_data) < HEADER_LEN THEN Raise("DecryptionFailedError")
    ELSE
      LET salt  == Slice(encrypted_data, ENC_MAGIC_LEN, ENC_MAGIC_LEN + SALT_LEN)
          nonce == Slice(encrypted_data, ENC_MAGIC_LEN + SALT_LEN,
                         ENC_MAGIC_LEN + SALT_LEN + NONCE_LEN)
          tag   == Slice(encrypted_data, ENC_MAGIC_LEN + SALT_LEN + NONCE_LEN,
                         ENC_MAGIC_LEN + SALT_LEN + NONCE_LEN + TAG_LEN)
          ciphertext_start == ENC_MAGIC_LEN + SALT_LEN + NONCE_LEN + TAG_LEN
                                + CIPHER_LEN_FIELD
          cipher_len == UnpackBE(Slice(encrypted_data,
                                       ciphertext_start - CIPHER_LEN_FIELD,
                                       ciphertext_start))
          ciphertext == Slice(encrypted_data, ciphertext_start,
                              ciphertext_start + cipher_len)
          found == aesgcm_matches(sealed, derive_key(password, salt), nonce,
                                  ciphertext, tag)
      IN  IF Len(ciphertext) # cipher_len THEN Raise("DecryptionFailedError")
          ELSE IF found = {} THEN Raise("DecryptionFailedError")
          ELSE Ok((CHOOSE r \in found : TRUE).pt)

\* decrypt(encrypted_data, password)
decrypt(sealed, encrypted_data, password) ==
    IF Falsy(password) THEN Raise("InvalidPasswordError")
    ELSE IF Len(encrypted_data) < HEADER_LEN THEN Raise("DecryptionFailedError")
    ELSE IF Slice(encrypted_data, 0, ENC_MAGIC_LEN) # ENC_MAGIC
        THEN Raise("DecryptionFailedError")
    ELSE
      LET salt  == Slice(encrypted_data, ENC_MAGIC_LEN, ENC_MAGIC_LEN + SALT_LEN)
          nonce == Slice(encrypted_data, ENC_MAGIC_LEN + SALT_LEN,
                         ENC_MAGIC_LEN + SALT_LEN + NONCE_LEN)
          tag   == Slice(encrypted_data, ENC_MAGIC_LEN + SALT_LEN + NONCE_LEN,
                         ENC_MAGIC_LEN + SALT_LEN + NONCE_LEN + TAG_LEN)
          cipher_len_offset == ENC_MAGIC_LEN + SALT_LEN + NONCE_LEN + TAG_LEN
      IN
        IF Len(encrypted_data) < cipher_len_offset + CIPHER_LEN_FIELD
        THEN Raise("DecryptionFailedError")
        ELSE
          LET cipher_len == UnpackBE(Slice(encrypted_data, cipher_len_offset,
                                           cipher_len_offset + CIPHER_LEN_FIELD))
              ciphertext_start == cipher_len_offset + CIPHER_LEN_FIELD
              ciphertext == Slice(encrypted_data, ciphertext_start,
                                  ciphertext_start + cipher_len)
              key == derive_key(password, salt)
              found == aesgcm_matches(sealed, key, nonce, ciphertext, tag)
          IN  IF Len(ciphertext) # cipher_len THEN Raise("DecryptionFailedError")
              ELSE IF found = {} THEN Raise("DecryptionFailedError")
              ELSE Ok((CHOOSE r \in found : TRUE).pt)

\* is_encrypted() testing for a codec's block magic instead of the envelope's
is_encrypted_block_magic(data) == StartsWith(data, <<83, 80, 88, 76, 86, 50, 0, 0>>)

\* is_encrypted() comparing only as many bytes as the codecs' shortest magic
is_encrypted_first_four(data) == StartsWith(data, Slice(ENC_MAGIC, 0, 4))

\* is_encrypted(data)
is_encrypted(data) == StartsWith(data, ENC_MAGIC)

\* the outcome recorded when no encryption takes place
NoRnd == [salt |-> <<>>, nonce |-> <<>>, tag |-> <<>>, ct |-> <<>>]

----------------------------------------------------------------------------
(* Decode results: a DecodeResult / PngDecodeResult, or the exception      *)
(* class raised together with the check that raised it                     *)

Decoded(data, filename, size) ==
    [kind |-> "ok", at |-> "return", data |-> data, filename |-> filename,
     size |-> size]

Failed(kind, at) ==
    [kind |-> kind, at |-> at, data |-> <<>>, filename |-> <<>>, size |-> 0]

----------------------------------------------------------------------------
(* codec_png.py                                                            *)

\* b"SPXL"
PNG_MAGIC == <<83, 80, 88, 76>>
PNG_VERSION == 1
HEADER_PREFIX == 22
MAX_FNAME_LEN == 255

\* "file.bin"
PNG_DEFAULT_NAME == <<102, 105, 108, 101, 46, 98, 105, 110>>

\* _build_header(data, filename)
png_build_header(data, filename) ==
    LET fname_bytes == Slice(utf8_encode(filename), 0, MAX_FNAME_LEN)
        crc == crc32(data)
    IN  PNG_MAGIC \o PackBE(PNG_VERSION, 4) \o PackBE(Len(data), 8) \o crc
            \o PackBE(Len(fname_bytes), 2) \o fname_bytes

\* _parse_header() comparing the version before the magic
png_parse_header_version_first(stream) ==
    IF Len(stream) < HEADER_PREFIX THEN Failed("NotAPngCodecFile", "prefix")
    ELSE
      LET fname_len == UnpackBE(Slice(stream, 20, 22))
          header_total == HEADER_PREFIX + fname_len
      IN  IF UnpackBE(Slice(stream, 4, 8)) # PNG_VERSION
              THEN Failed("PngVersionError", "version")
          ELSE IF Slice(stream, 0, 4) # PNG_MAGIC
              THEN Failed("NotAPngCodecFile", "magic")
          ELSE IF Len(stream) < header_total
              THEN Failed("PngCorruptedError", "filename")
          ELSE [kind |-> "ok", version |-> PNG_VERSION,
                data_len |-> UnpackBE(Slice(stream, 8, 16)),
                crc32 |-> Slice(stream, 16, 20),
                filename |-> utf8_decode(Slice(stream, HEADER_PREFIX, header_total)),
                header_total |-> header_total]

\* _parse_header(stream)
png_parse_header(stream) ==
    IF Len(stream) < HEADER_PREFIX THEN Failed("NotAPngCodecFile", "prefix")
    ELSE
      LET magic     == Slice(stream, 0, 4)
          version   == UnpackBE(Slice(stream, 4, 8))
          data_len  == UnpackBE(Slice(stream, 8, 16))
          crc       == Slice(stream, 16, 20)
          fname_len == UnpackBE(Slice(stream, 20, 22))
          header_total == HEADER_PREFIX + fname_len
      IN  IF magic # PNG_MAGIC THEN Failed("NotAPngCodecFile", "magic")
          ELSE IF version # PNG_VERSION THEN Failed("PngVersionError", "version")
          ELSE IF Len(stream) < header_total
              THEN Failed("PngCorruptedError", "filename")
          ELSE [kind |-> "ok", version |-> version, data_len |-> data_len,
                crc32 |-> crc,
                filename |-> utf8_decode(Slice(stream, HEADER_PREFIX, header_total)),
                header_total |-> header_total]

\* math.ceil(math.sqrt(n))
CeilSqrt(n) == CHOOSE w \in 0..n : w * w >= n /\ (w = 0 \/ (w - 1) * (w - 1) < n)

\* math.ceil(n / w)
CeilDiv(n, w) == (n + w - 1) \div w

\* _square_dimensions() rounding the square root down
png_square_dimensions_floor(num_pixels) ==
    LET root  == CeilSqrt(num_pixels)
        width == IF root * root > num_pixels THEN root - 1 ELSE root
    IN  <<width, CeilDiv(num_pixels, width)>>

\* _square_dimensions(num_pixels)
png_square_dimensions(num_pixels) ==
    LET width == CeilSqrt(num_pixels)
    IN  <<width, CeilDiv(num_pixels, width)>>

\* Image.frombytes("RGB", (width, height), payload): rows of RGB triples.
\* Saving as PNG and opening it again keeps the raster (PNG is lossless), so
\* the PNG file is represented by the image it holds.
image_frombytes(width, height, payload) ==
    [width |-> width, height |-> height,
     rows |-> [y \in 1..height |-> [x \in 1..width |->
                 LET o == ((y - 1) * width + (x - 1)) * 3
                 IN  <<payload[o + 1], payload[o + 2], payload[o + 3]>>]]]

\* img.tobytes(): the flat R,G,B,R,G,B,... sequence, row-major
image_tobytes(img) ==
    [k \in 1..(img.width * img.height * 3) |->
        LET p == (k - 1) \div 3
        IN  img.rows[(p \div img.width) + 1][(p % img.width) + 1][((k - 1) % 3) + 1]]

\* the payload padded to whole pixels and a full raster, as encode() packs it
png_pack(payload) ==
    LET remainder == Len(payload) % 3
        padded  == IF remainder # 0 THEN payload \o Zeros(3 - remainder) ELSE payload
        num_pixels == Len(padded) \div 3
        dims    == png_square_dimensions(num_pixels)
        total_pixels == dims[1] * dims[2]
    IN  image_frombytes(dims[1], dims[2],
                        padded \o Zeros((total_pixels - num_pixels) * 3))

\* the plaintext encode() seals when a password is given
png_plain(data, filename) ==
    png_build_header(data, IF filename = <<>> THEN PNG_DEFAULT_NAME ELSE filename)
        \o data

\* encode(data, filename, password)
png_encode(data, filename, password, rnd) ==
    LET name    == IF filename = <<>> THEN PNG_DEFAULT_NAME ELSE filename
        header  == png_build_header(data, name)
        plain   == header \o data
        payload == IF Falsy(password) THEN plain ELSE encrypt(plain, password, rnd)
        remainder == Len(payload) % 3
        padded  == IF remainder # 0 THEN payload \o Zeros(3 - remainder) ELSE payload
        num_pixels == Len(padded) \div 3
        dims    == png_square_dimensions(num_pixels)
        total_pixels == dims[1] * dims[2]
        full    == padded \o Zeros((total_pixels - num_pixels) * 3)
    IN  [png_bytes |-> image_frombytes(dims[1], dims[2], full),
         image_width |-> dims[1], image_height |-> dims[2],
         input_size |-> Len(data)]

\* decode() taking the payload right after the fixed prefix, the filename
\* length left out of the offset
png_decode_stream_no_name(stream) ==
    LET h == png_parse_header(stream)
    IN  IF h.kind # "ok" THEN h
        ELSE
          LET data_start == HEADER_PREFIX
              data_end   == data_start + h.data_len
              data       == Slice(stream, data_start, data_end)
          IN  IF data_end > Len(stream) THEN Failed("PngCorruptedError", "length")
              ELSE IF crc32(data) # h.crc32 THEN Failed("PngCorruptedError", "crc")
              ELSE Decoded(data, h.filename, h.data_len)

\* decode() slicing the payload without comparing data_end with the stream
png_decode_stream_no_length(stream) ==
    LET h == png_parse_header(stream)
    IN  IF h.kind # "ok" THEN h
        ELSE
          LET data == Slice(stream, h.header_total, h.header_total + h.data_len)
          IN  IF crc32(data) # h.crc32 THEN Failed("PngCorruptedError", "crc")
              ELSE Decoded(data, h.filename, h.data_len)

\* decode() returning everything after the header, padding included
png_decode_stream_with_padding(stream) ==
    LET h == png_parse_header(stream)
    IN  IF h.kind # "ok" THEN h
        ELSE
          LET data_start == h.header_total
              data_end   == data_start + h.data_len
              data       == Slice(stream, data_start, data_end)
          IN  IF data_end > Len(stream) THEN Failed("PngCorruptedError", "length")
              ELSE IF crc32(data) # h.crc32 THEN Failed("PngCorruptedError", "crc")
              ELSE Decoded(Slice(stream, data_start, Len(stream)), h.filename,
                           h.data_len)

\* the part of decode() after the optional decryption
png_decode_stream(stream) ==
    LET h == png_parse_header(stream)
    IN  IF h.kind # "ok" THEN h
        ELSE
          LET data_start == h.header_total
              data_end   == data_start + h.data_len
              data       == Slice(stream, data_start, data_end)
          IN  IF data_end > Len(stream) THEN Failed("PngCorruptedError", "length")
              ELSE IF crc32(data) # h.crc32 THEN Failed("PngCorruptedError", "crc")
              ELSE Decoded(data, h.filename, h.data_len)

\* decode() refusing a password that comes with a plain stream
png_decode_spare_password_refused(sealed_now, png_bytes, password) ==
    LET stream == image_tobytes(png_bytes)
    IN  IF is_encrypted(stream) THEN
            IF Falsy(password) THEN Failed("PngCorruptedError", "password")
            ELSE LET d == decrypt(sealed_now, stream, password)
                 IN  IF d.kind # "ok" THEN Failed("PngCorruptedError", d.kind)
                     ELSE png_decode_stream(d.value)
        ELSE IF ~Falsy(password) THEN Failed("PngCorruptedError", "password")
        ELSE png_decode_stream(stream)

\* decode(png_bytes, password)
png_decode(sealed, png_bytes, password) ==
    LET stream == image_tobytes(png_bytes)
    IN  IF is_encrypted(stream) THEN
            IF Falsy(password) THEN Failed("PngCorruptedError", "password")
            ELSE LET d == decrypt(sealed, stream, password)
                 IN  IF d.kind # "ok" THEN Failed("PngCorruptedError", d.kind)
                     ELSE png_decode_stream(d.value)
        ELSE png_decode_stream(stream)

----------------------------------------------------------------------------
(* codec.py: the image codec of the first generation, without encryption   *)

\* b"SPXL"
CODEC_MAGIC == <<83, 80, 88, 76>>
CODEC_VERSION == 1
HEADER_PREFIX_SIZE == 22
MAX_FILENAME_BYTES == 255

\* _build_header(data, filename)
codec_build_header(data, filename) ==
    LET encoded     == utf8_encode(filename)
        fname_bytes == IF Len(encoded) > MAX_FILENAME_BYTES
                       THEN Slice(encoded, 0, MAX_FILENAME_BYTES) ELSE encoded
        crc       == crc32(data)
        data_len  == Len(data)
        fname_len == Len(fname_bytes)
    IN  CODEC_MAGIC \o PackBE(CODEC_VERSION, 4) \o PackBE(data_len, 8) \o crc
            \o PackBE(fname_len, 2) \o fname_bytes

\* _parse_header() accepting whatever version the header carries
codec_parse_header_any_version(stream) ==
    IF Len(stream) < HEADER_PREFIX_SIZE THEN Failed("CorruptedImageError", "prefix")
    ELSE
      LET fname_len    == UnpackBE(Slice(stream, 20, 22))
          header_total == HEADER_PREFIX_SIZE + fname_len
      IN  IF Slice(stream, 0, 4) # CODEC_MAGIC
              THEN Failed("CorruptedImageError", "magic")
          ELSE IF Len(stream) < header_total
              THEN Failed("CorruptedImageError", "filename")
          ELSE [kind |-> "ok", version |-> UnpackBE(Slice(stream, 4, 8)),
                data_len |-> UnpackBE(Slice(stream, 8, 16)),
                crc32 |-> Slice(stream, 16, 20),
                filename |-> utf8_decode(Slice(stream, HEADER_PREFIX_SIZE,
                                               header_total)),
                header_total |-> header_total]

\* _parse_header(stream)
codec_parse_header(stream) ==
    IF Len(stream) < HEADER_PREFIX_SIZE THEN Failed("CorruptedImageError", "prefix")
    ELSE
      LET magic     == Slice(stream, 0, 4)
          version   == UnpackBE(Slice(stream, 4, 8))
          data_len  == UnpackBE(Slice(stream, 8, 16))
          crc       == Slice(stream, 16, 20)
          fname_len == UnpackBE(Slice(stream, 20, 22))
          header_total == HEADER_PREFIX_SIZE + fname_len
      IN  IF magic # CODEC_MAGIC THEN Failed("CorruptedImageError", "magic")
          ELSE IF version # CODEC_VERSION
              THEN Failed("UnsupportedVersionError", "version")
          ELSE IF Len(stream) < header_total
              THEN Failed("CorruptedImageError", "filename")
          ELSE [kind |-> "ok", version |-> version, data_len |-> data_len,
                crc32 |-> crc,
                filename |-> utf8_decode(Slice(stream, HEADER_PREFIX_SIZE,
                                               header_total)),
                header_total |-> header_total]

\* _compute_image_dimensions(num_pixels)
codec_compute_image_dimensions(num_pixels) ==
    LET width == CeilSqrt(num_pixels)
    IN  <<width, CeilDiv(num_pixels, width)>>

\* encode(data, filename)
codec_encode(data, filename) ==
    LET name    == IF filename = <<>> THEN PNG_DEFAULT_NAME ELSE filename
        header  == codec_build_header(data, name)
        payload == header \o data
        remainder == Len(payload) % 3
        padded  == IF remainder # 0 THEN payload \o Zeros(3 - remainder) ELSE payload
        num_pixels == Len(padded) \div 3
        dims    == codec_compute_image_dimensions(num_pixels)
        total_pixels == dims[1] * dims[2]
        full    == padded \o Zeros((total_pixels - num_pixels) * 3)
    IN  [png_bytes |-> image_frombytes(dims[1], dims[2], full),
         image_width |-> dims[1], image_height |-> dims[2],
         total_pixels |-> total_pixels, payload_size |-> Len(full)]

\* decode(png_bytes)
codec_decode(png_bytes) ==
    LET stream == image_tobytes(png_bytes)
        h      == codec_parse_header(stream)
    IN  IF h.kind # "ok" THEN h
        ELSE
          LET data_start == h.header_total
              data_end   == data_start + h.data_len
              data       == Slice(stream, data_start, data_end)
          IN  IF data_end > Len(stream)
                  THEN Failed("CorruptedImageError", "length")
              ELSE IF crc32(data) # h.crc32
                  THEN Failed("CorruptedImageError", "crc")
              ELSE Decoded(data, h.filename, h.data_len)

----------------------------------------------------------------------------
(* codec_mp3.py                                                            *)

\* b"SPXLV2\x00\x00"
MP3_MAGIC == <<83, 80, 88, 76, 86, 50, 0, 0>>
\* b"SPXLEND\x00"
TAIL_MAGIC == <<83, 80, 88, 76, 69, 78, 68, 0>>
MP3_VERSION == 2
MAGIC_LEN == Len(MP3_MAGIC)
TAIL_LEN == Len(TAIL_MAGIC)
MAX_FNAME_BYTES == 255
HEADER_FIXED == 16

\* "image.png"
MP3_DEFAULT_NAME == <<105, 109, 97, 103, 101, 46, 112, 110, 103>>

\* header + image_bytes, the unit _build_block() appends or seals
mp3_plain(image_bytes, image_filename) ==
    LET fname_bytes == Slice(utf8_encode(image_filename), 0, MAX_FNAME_BYTES)
        crc == crc32(image_bytes)
    IN  MP3_MAGIC \o PackBE(MP3_VERSION, 2) \o PackBE(Len(image_bytes), 8) \o crc
            \o PackBE(Len(fname_bytes), 2) \o fname_bytes \o image_bytes

\* _build_block(image_bytes, image_filename, password)
mp3_build_block(image_bytes, image_filename, password, rnd) ==
    LET payload == mp3_plain(image_bytes, image_filename)
    IN  (IF Falsy(password) THEN payload ELSE encrypt(payload, password, rnd))
            \o TAIL_MAGIC

\* the part of _find_and_parse_block() that parses the (possibly decrypted)
\* block
mp3_parse_block(data_to_parse) ==
    IF MAGIC_LEN + HEADER_FIXED > Len(data_to_parse)
    THEN Failed("CorruptedFileError", "header")
    ELSE
      LET version      == UnpackBE(Slice(data_to_parse, MAGIC_LEN, MAGIC_LEN + 2))
          img_size     == UnpackBE(Slice(data_to_parse, MAGIC_LEN + 2, MAGIC_LEN + 10))
          expected_crc == Slice(data_to_parse, MAGIC_LEN + 10, MAGIC_LEN + 14)
          fname_len    == UnpackBE(Slice(data_to_parse, MAGIC_LEN + 14, MAGIC_LEN + 16))
          name_at      == MAGIC_LEN + HEADER_FIXED
          data_at      == name_at + fname_len
          image_bytes  == Slice(data_to_parse, data_at, data_at + img_size)
      IN  IF version # MP3_VERSION THEN Failed("UnsupportedVersionError", "version")
          ELSE IF name_at + fname_len > Len(data_to_parse)
              THEN Failed("CorruptedFileError", "filename")
          ELSE IF data_at + img_size > Len(data_to_parse)
              THEN Failed("CorruptedFileError", "length")
          ELSE IF crc32(image_bytes) # expected_crc
              THEN Failed("CorruptedFileError", "crc")
          ELSE Decoded(image_bytes,
                       utf8_decode(Slice(data_to_parse, name_at, data_at)),
                       Len(image_bytes))

\* b.find(sub, 0, end): lowest index of an occurrence lying wholly before
\* end, or -1
Find(b, sub, end) ==
    LET hits == {i \in 0..(Min(end, Len(b)) - Len(sub)) : MatchAt(b, sub, i)}
    IN  IF hits = {} THEN -1 ELSE CHOOSE i \in hits : \A j \in hits : i <= j

\* _find_and_parse_block() searching forward: the first start marker of the
\* file is taken for the block
mp3_find_first_block(sealed, data, password) ==
    IF ~EndsWith(data, TAIL_MAGIC) THEN Failed("NotEncodedError", "tail")
    ELSE
      LET tail_start    == Len(data) - TAIL_LEN
          enc_magic_pos == Find(data, ENC_MAGIC, tail_start)
          magic_pos     == Find(data, MP3_MAGIC, tail_start)
      IN  IF enc_magic_pos # -1 /\ (magic_pos = -1 \/ enc_magic_pos < magic_pos)
          THEN
            IF Falsy(password) THEN Failed("CorruptedFileError", "password")
            ELSE LET d == decrypt(sealed, Slice(data, enc_magic_pos, tail_start),
                                  password)
                 IN  IF d.kind # "ok" THEN Failed("CorruptedFileError", d.kind)
                     ELSE mp3_parse_block(d.value)
          ELSE IF magic_pos # -1
          THEN mp3_parse_block(Slice(data, magic_pos, tail_start))
          ELSE Failed("CorruptedFileError", "magic")

\* _find_and_parse_block(data, password), with decode()'s DecodeResult
mp3_find_and_parse_block(sealed, data, password) ==
    IF ~EndsWith(data, TAIL_MAGIC) THEN Failed("NotEncodedError", "tail")
    ELSE
      LET tail_start    == Len(data) - TAIL_LEN
          enc_magic_pos == RFind(data, ENC_MAGIC, tail_start)
          magic_pos     == RFind(data, MP3_MAGIC, tail_start)
      IN  IF enc_magic_pos # -1 /\ (magic_pos = -1 \/ enc_magic_pos > magic_pos)
          THEN
            IF Falsy(password) THEN Failed("CorruptedFileError", "password")
            ELSE LET d == decrypt(sealed, Slice(data, enc_magic_pos, tail_start),
                                  password)
                 IN  IF d.kind # "ok" THEN Failed("CorruptedFileError", d.kind)
                     ELSE mp3_parse_block(d.value)
          ELSE IF magic_pos # -1
          THEN mp3_parse_block(Slice(data, magic_pos, tail_start))
          ELSE Failed("CorruptedFileError", "magic")

\* the host bytes encode() keeps: a previously embedded block is stripped
mp3_strip(mp3_bytes) ==
    IF EndsWith(mp3_bytes, TAIL_MAGIC)
    THEN LET magic_pos == RFind(mp3_bytes, MP3_MAGIC, Len(mp3_bytes))
         IN  IF magic_pos # -1 THEN Slice(mp3_bytes, 0, magic_pos) ELSE mp3_bytes
    ELSE mp3_bytes

\* encode() reporting the length of the file it was given as mp3_size
mp3_encode_size_of_input(mp3_bytes, image_bytes, image_filename, password, rnd) ==
    LET name   == IF image_filename = <<>> THEN MP3_DEFAULT_NAME ELSE image_filename
        output == mp3_strip(mp3_bytes)
                    \o mp3_build_block(image_bytes, name, password, rnd)
    IN  [mp3_bytes |-> output, mp3_size |-> Len(mp3_bytes),
         image_size |-> Len(image_bytes), total_size |-> Len(output)]

\* encode(mp3_bytes, image_bytes, image_filename, password)
mp3_encode(mp3_bytes, image_bytes, image_filename, password, rnd) ==
    LET name   == IF image_filename = <<>> THEN MP3_DEFAULT_NAME ELSE image_filename
        kept   == mp3_strip(mp3_bytes)
        block  == mp3_build_block(image_bytes, name, password, rnd)
        output == kept \o block
    IN  [mp3_bytes |-> output, mp3_size |-> Len(kept),
         image_size |-> Len(image_bytes), total_size |-> Len(output)]

\* decode() parsing a plain block it finds although the end marker is missing
mp3_decode_without_tail(sealed, mp3_bytes, password) ==
    LET magic_pos == RFind(mp3_bytes, MP3_MAGIC, Len(mp3_bytes))
    IN  IF ~EndsWith(mp3_bytes, TAIL_MAGIC) /\ magic_pos # -1
        THEN mp3_parse_block(Slice(mp3_bytes, magic_pos, Len(mp3_bytes)))
        ELSE mp3_find_and_parse_block(sealed, mp3_bytes, password)

\* decode(mp3_bytes, password)
mp3_decode(sealed, mp3_bytes, password) ==
    mp3_find_and_parse_block(sealed, mp3_bytes, password)

----------------------------------------------------------------------------
(* The calls a client makes: one encode, for the audio codec possibly a    *)
(* second encode over the carrier the first returned, then one decode of   *)
(* the carrier in hand.                                                    *)

VARIABLES
    codec,      \* "none", "png" or "mp3": the codec module in use
    encs,       \* the encode calls made so far: arguments, outcome, result
    carrier,    \* the carrier in hand (an image, or MP3 bytes)
    dec,        \* the decode call, once made: its password and its result
    sealed,     \* what AES-GCM has encrypted so far
    damage,     \* what happened to the carrier between encode and decode
    calls       \* the calls followed step by step, one to a thread: the
                \* step reached, the call's local variables, its result

vars == <<codec, encs, carrier, dec, sealed, damage, calls>>

\* longest payload enumerated byte by byte
MaxDataLen == 2

RECURSIVE SeqsUpTo(_, _)
SeqsUpTo(S, n) ==
    IF n = 0 THEN {<<>>}
    ELSE LET shorter == SeqsUpTo(S, n - 1)
         IN  shorter \cup {Append(q, b) : q \in {r \in shorter : Len(r) = n - 1}, b \in S}

\* an MPEG frame sync word standing for the audio frames
Frame == <<255, 251, 144, 0>>

\* a carrier this codec made earlier, offered as the file to embed
NestedCarrier == mp3_encode(Frame, <<7>>, <<122>>, None, NoRnd).mp3_bytes

\* a file one bit away from an audio block: b"RPXLV2\x00\x00" and then the
\* header, name and data of a block holding b"\x07" named "z"
NearBlock == [mp3_plain(<<7>>, <<122>>) EXCEPT ![1] = 82]

\* payloads: every buffer of zero and 0xFF bytes up to MaxDataLen, and
\* buffers holding the codecs' own marker sequences
Payloads ==
    SeqsUpTo({0, 255}, MaxDataLen)
        \cup {MP3_MAGIC, ENC_MAGIC, TAIL_MAGIC, NestedCarrier, NearBlock}

\* host audio: empty, plain frames, frames holding a stale start marker of
\* either kind, and audio that happens to end with the end marker
Hosts ==
    { <<>>, Frame, Frame \o MP3_MAGIC \o <<7>>, Frame \o ENC_MAGIC \o <<7>>,
      Frame \o MP3_MAGIC \o <<7>> \o TAIL_MAGIC }

\* a name whose UTF-8 encoding is exactly the cap, ending in a 2-byte letter
NameFits == Fill(MAX_FNAME_LEN - 2, 97) \o <<1092>>
\* a name one byte over the cap: the cut falls inside the 2-byte letter
NameSplit == Fill(MAX_FNAME_LEN - 1, 97) \o <<1092>>

PngFilenames == { <<>>, <<97>>, <<1092, 8364>>, NameFits, NameSplit }
Mp3Filenames == { <<>>, <<1092, 97>>, NameSplit }

EncodePasswords == { None, "", "p" }
DecodePasswords == { None, "", "p", "q" }

\* what os.urandom and the cipher may return for a plaintext of n bytes:
\* unremarkable bytes, and bytes that spell one of the marker sequences
Outcomes(n) ==
    LET salt  == Fill(SALT_LEN, 17)
        nonce == Fill(NONCE_LEN, 34)
        tag   == Fill(TAG_LEN, 51)
        ct    == Fill(n, 170)
    IN  { [salt |-> salt, nonce |-> nonce, tag |-> tag, ct |-> ct],
          [salt |-> MP3_MAGIC \o Fill(SALT_LEN - MAGIC_LEN, 17),
           nonce |-> nonce, tag |-> tag, ct |-> ct],
          [salt |-> salt, nonce |-> nonce, tag |-> tag,
           ct |-> ENC_MAGIC \o Fill(n - ENC_MAGIC_LEN, 170)] }

\* the outcomes open to one encrypt(plaintext, password) call
Draws(plaintext, password) ==
    IF Falsy(password) THEN {NoRnd}
    ELSE {o \in Outcomes(Len(plaintext)) :
            aesgcm_possible(sealed,
                aesgcm_record(derive_key(password, o.salt), o.nonce, plaintext,
                              o.ct, o.tag))}

\* the table after encrypt(plaintext, password) drew rnd
Sealed(plaintext, password, rnd) ==
    IF Falsy(password) THEN sealed
    ELSE sealed \cup {aesgcm_record(derive_key(password, rnd.salt), rnd.nonce,
                                    plaintext, rnd.ct, rnd.tag)}

NoDecode == [done |-> FALSE, password |-> None, result |-> Failed("none", "none")]

\* the carrier is as encode returned it
NoDamage == [kind |-> "none", at |-> 0]

Call(host, data, filename, password, rnd, out) ==
    [host |-> host, data |-> data, filename |-> filename, password |-> password,
     rnd |-> rnd, out |-> out]

\* the request threads of the server
Threads == { "a", "b" }

\* a thread that runs no call: nothing entered, no locals, no result
IdleCall ==
    [op |-> "none", step |-> "Idle", password |-> None, input |-> <<>>,
     work |-> <<>>, header |-> <<>>, rnd |-> NoRnd,
     result |-> Failed("none", "none")]

Init ==
    /\ codec = "none"
    /\ encs = <<>>
    /\ carrier = <<>>
    /\ dec = NoDecode
    /\ sealed = {}
    /\ damage = NoDamage
    /\ calls = [t \in Threads |-> IdleCall]

\* codec_png.encode(data, filename, password)
PngEncode ==
    /\ codec = "none"
    /\ \E data \in Payloads, filename \in PngFilenames, password \in EncodePasswords :
        \E rnd \in Draws(png_plain(data, filename), password) :
            LET out == png_encode(data, filename, password, rnd)
            IN  /\ codec' = "png"
                /\ encs' = <<Call(<<>>, data, filename, password, rnd, out)>>
                /\ carrier' = out.png_bytes
                /\ sealed' = Sealed(png_plain(data, filename), password, rnd)
                /\ UNCHANGED <<dec, damage, calls>>

\* codec_png.decode(png_bytes, password)
PngDecode ==
    /\ codec = "png"
    /\ ~dec.done
    /\ \E password \in DecodePasswords :
        dec' = [done |-> TRUE, password |-> password,
                result |-> png_decode(sealed, carrier, password)]
    /\ UNCHANGED <<codec, encs, carrier, sealed, damage, calls>>

\* the name encode() embeds
Mp3Name(filename) == IF filename = <<>> THEN MP3_DEFAULT_NAME ELSE filename

\* codec_mp3.encode(host, image_bytes, image_filename, password)
Mp3Encode ==
    /\ codec = "none"
    /\ \E host \in Hosts, data \in Payloads, filename \in Mp3Filenames,
          password \in EncodePasswords :
        \E rnd \in Draws(mp3_plain(data, Mp3Name(filename)), password) :
            LET out == mp3_encode(host, data, filename, password, rnd)
            IN  /\ codec' = "mp3"
                /\ encs' = <<Call(host, data, filename, password, rnd, out)>>
                /\ carrier' = out.mp3_bytes
                /\ sealed' = Sealed(mp3_plain(data, Mp3Name(filename)), password, rnd)
                /\ UNCHANGED <<dec, damage, calls>>

\* what the second encode embeds
ReEmbedPayloads == { <<255>> }
ReEmbedFilenames == { <<98>> }
ReEmbedPasswords == { None, "q" }

\* codec_mp3.encode(carrier, image_bytes, image_filename, password): a second
\* embedding, over the carrier the first encode returned
Mp3ReEncode ==
    /\ codec = "mp3"
    /\ Len(encs) = 1
    /\ ~dec.done
    /\ \E data \in ReEmbedPayloads, filename \in ReEmbedFilenames,
          password \in ReEmbedPasswords :
        \E rnd \in Draws(mp3_plain(data, Mp3Name(filename)), password) :
            LET out == mp3_encode(carrier, data, filename, password, rnd)
            IN  /\ encs' = Append(encs, Call(carrier, data, filename, password, rnd, out))
                /\ carrier' = out.mp3_bytes
                /\ sealed' = Sealed(mp3_plain(data, Mp3Name(filename)), password, rnd)
                /\ UNCHANGED <<codec, dec, damage, calls>>

\* codec_mp3.decode(mp3_bytes, password)
Mp3Decode ==
    /\ codec = "mp3"
    /\ ~dec.done
    /\ \E password \in DecodePasswords :
        dec' = [done |-> TRUE, password |-> password,
                result |-> mp3_decode(sealed, carrier, password)]
    /\ UNCHANGED <<codec, encs, carrier, sealed, damage, calls>>

Next == PngEncode \/ PngDecode \/ Mp3Encode \/ Mp3ReEncode \/ Mp3Decode

Spec == Init /\ [][Next]_vars

\* the image codec alone
NextPng == PngEncode \/ PngDecode
SpecPng == Init /\ [][NextPng]_vars

\* the audio codec alone
NextMp3 == Mp3Encode \/ Mp3ReEncode \/ Mp3Decode
SpecMp3 == Init /\ [][NextMp3]_vars

----------------------------------------------------------------------------
(* A carrier damaged between encode and decode                             *)

\* the carrier's byte stream: the pixel bytes of an image, the file itself
\* for an MP3
CarrierBytes == IF codec = "png" THEN image_tobytes(carrier) ELSE carrier

\* the carrier holding the byte stream b (an image keeps its dimensions)
WithBytes(b) ==
    IF codec = "png" THEN image_frombytes(carrier.width, carrier.height, b) ELSE b

\* where the payload (sealed or not) of an encode call begins in the
\* carrier's byte stream: after the header, itself after the envelope's
\* fixed fields when sealed; in an MP3 the payload ends where the end marker
\* begins
PayloadAt(call) ==
    IF codec = "png"
    THEN (IF Falsy(call.password) THEN 0 ELSE HEADER_LEN)
            + Len(png_build_header(call.data,
                    IF call.filename = <<>> THEN PNG_DEFAULT_NAME ELSE call.filename))
    ELSE Len(call.out.mp3_bytes) - TAIL_LEN - Len(call.data)

\* v ^ (1 << k)
FlipBitOf(v, k) == IF (v \div (2 ^ k)) % 2 = 1 THEN v - 2 ^ k ELSE v + 2 ^ k

\* data[i] ^= 1 << k, i counted from 0
FlipAt(b, i, k) == [b EXCEPT ![i + 1] = FlipBitOf(b[i + 1], k)]

\* the carriers whose payload bits are flipped one by one
FlipHosts == { <<>> }
FlipFilenames == { <<97>>, <<1092, 97>> }

\* one bit of the payload region is flipped
FlipBit ==
    /\ codec \in {"png", "mp3"}
    /\ Len(encs) = 1
    /\ ~dec.done
    /\ damage = NoDamage
    /\ encs[1].host \in FlipHosts
    /\ encs[1].filename \in FlipFilenames
    /\ \E i \in 0..(Len(encs[1].data) - 1), k \in 0..7 :
        LET at == PayloadAt(encs[1]) + i
        IN  /\ carrier' = WithBytes(FlipAt(CarrierBytes, at, k))
            /\ damage' = [kind |-> "flip", at |-> at]
    /\ UNCHANGED <<codec, encs, dec, sealed, calls>>

NextFlip == PngEncode \/ Mp3Encode \/ FlipBit \/ PngDecode \/ Mp3Decode
SpecFlip == Init /\ [][NextFlip]_vars

\* files handed to decode that encode never saw: no bytes at all, plain
\* audio, audio with a start marker but no end marker, an end marker that is
\* not at the end, an end marker short of its last byte
RawBuffers ==
    { <<>>, Frame, Frame \o MP3_MAGIC \o <<7>>, TAIL_MAGIC \o Frame,
      Frame \o Slice(TAIL_MAGIC, 0, TAIL_LEN - 1) }

\* a file that did not come from encode is about to be decoded
Mp3Raw ==
    /\ codec = "none"
    /\ \E buffer \in RawBuffers :
        /\ codec' = "mp3"
        /\ carrier' = buffer
        /\ damage' = [kind |-> "raw", at |-> 0]
    /\ UNCHANGED <<encs, dec, sealed, calls>>

\* enc.mp3_bytes[:-8]: the carrier loses its last TAIL_LEN bytes
CutTail ==
    /\ codec = "mp3"
    /\ Len(encs) = 1
    /\ ~dec.done
    /\ damage = NoDamage
    /\ carrier' = Slice(carrier, 0, Len(carrier) - TAIL_LEN)
    /\ damage' = [kind |-> "cut_tail", at |-> Len(carrier) - TAIL_LEN]
    /\ UNCHANGED <<codec, encs, dec, sealed, calls>>

NextCut == Mp3Encode \/ Mp3Raw \/ CutTail \/ Mp3Decode
SpecCut == Init /\ [][NextCut]_vars

----------------------------------------------------------------------------
(* Files that another encoder, or an editor, made: a block of this format  *)
(* with header fields overwritten or with its end missing                  *)

\* b[i : i + len(bytes)] = bytes, kept within b
PutAt(b, i, bytes) ==
    [k \in 1..Len(b) |-> IF k > i /\ k <= i + Len(bytes) THEN bytes[k - i] ELSE b[k]]

\* how far a declared length overshoots what the file holds
Excess == 64

\* the block the file was made from
ForeignData == <<255, 0>>
ForeignName == <<97>>

\* version numbers a header may carry: 1 is codec_png's, 2 is codec_mp3's
ForeignVersions == 0..3

\* what the file's header says: the magic intact or not, the version, the
\* name and data lengths exact or overshooting, the checksum intact or not,
\* and whether the stream stops short of the fixed header fields
ForeignEdits ==
    [magic : BOOLEAN, version : ForeignVersions, more_name : {0, Excess},
     more_data : {0, Excess}, crc : BOOLEAN, short : BOOLEAN]

\* the header + data stream for edit e, given the genuine stream, the length
\* of its magic, the width of its version field and the length kept when
\* the stream is cut short; the fields follow in the order
\* MAGIC | VERSION | DATA_LEN(8) | CRC32(4) | FNAME_LEN(2)
ForeignStream(genuine, magic_len, version_width, short_len, e) ==
    LET at_len  == magic_len + version_width
        s1 == IF e.magic THEN genuine ELSE PutAt(genuine, 0, <<0>>)
        s2 == PutAt(s1, magic_len, PackBE(e.version, version_width))
        s3 == PutAt(s2, at_len, PackBE(Len(ForeignData) + e.more_data, 8))
        s4 == IF e.crc THEN s3 ELSE PutAt(s3, at_len + 8, <<0, 0, 0, 0>>)
        s5 == PutAt(s4, at_len + 12,
                    PackBE(Len(utf8_encode(ForeignName)) + e.more_name, 2))
    IN  IF e.short THEN Slice(s5, 0, short_len) ELSE s5

\* six whole pixels, fewer bytes than the fixed prefix
PngShortLen == HEADER_PREFIX - 4
\* one byte less than the start marker and the fixed fields
Mp3ShortLen == MAGIC_LEN + HEADER_FIXED - 1

png_foreign(e) ==
    ForeignStream(png_plain(ForeignData, ForeignName), Len(PNG_MAGIC), 4,
                  PngShortLen, e)

mp3_foreign(e) ==
    ForeignStream(mp3_plain(ForeignData, ForeignName), MAGIC_LEN, 2,
                  Mp3ShortLen, e)

ForeignPasswords == { None, "p" }

\* the salt, nonce, tag and ciphertext of a sealed foreign file
ForeignDraw(plaintext, password) ==
    IF Falsy(password) THEN NoRnd
    ELSE [salt |-> Fill(SALT_LEN, 17), nonce |-> Fill(NONCE_LEN, 34),
          tag |-> Fill(TAG_LEN, 51), ct |-> Fill(Len(plaintext), 170)]

\* the stream as it is embedded: sealed when a password is given
ForeignPayload(stream, password) ==
    IF Falsy(password) THEN stream
    ELSE encrypt(stream, password, ForeignDraw(stream, password))

\* an image made elsewhere is about to be decoded: the stream packed into
\* pixels the way encode() packs it
PngForeign ==
    /\ codec = "none"
    /\ \E e \in ForeignEdits, password \in ForeignPasswords :
        LET stream == png_foreign(e)
            rnd    == ForeignDraw(stream, password)
        IN  /\ codec' = "png"
            /\ encs' = <<Call(<<>>, ForeignData, ForeignName, password, rnd, stream)>>
            /\ carrier' = png_pack(ForeignPayload(stream, password))
            /\ sealed' = Sealed(stream, password, rnd)
            /\ damage' = [kind |-> "foreign", at |-> 0, edit |-> e]
    /\ UNCHANGED <<dec, calls>>

\* an MP3 made elsewhere is about to be decoded: audio, the stream, the end
\* marker
Mp3Foreign ==
    /\ codec = "none"
    /\ \E e \in ForeignEdits, password \in ForeignPasswords :
        LET stream == mp3_foreign(e)
            rnd    == ForeignDraw(stream, password)
        IN  /\ codec' = "mp3"
            /\ encs' = <<Call(Frame, ForeignData, ForeignName, password, rnd, stream)>>
            /\ carrier' = Frame \o ForeignPayload(stream, password) \o TAIL_MAGIC
            /\ sealed' = Sealed(stream, password, rnd)
            /\ damage' = [kind |-> "foreign", at |-> 0, edit |-> e]
    /\ UNCHANGED <<dec, calls>>

NextForeign == PngForeign \/ Mp3Foreign \/ PngDecode \/ Mp3Decode
SpecForeign == Init /\ [][NextForeign]_vars

----------------------------------------------------------------------------
(* encryption.py called on its own: encrypt, then decrypt of the envelope, *)
(* which may have been cut, extended or overwritten in between             *)

EnvelopePasswords == { None, "", "p", "q" }

\* encryption.encrypt(plaintext, password)
Encrypt ==
    /\ codec = "none"
    /\ \E plaintext \in Payloads, password \in EnvelopePasswords :
        \E rnd \in Draws(plaintext, password) :
            LET out == IF Falsy(password) THEN Raise("InvalidPasswordError")
                       ELSE Ok(encrypt(plaintext, password, rnd))
            IN  /\ codec' = "enc"
                /\ encs' = <<Call(<<>>, plaintext, <<>>, password, rnd, out)>>
                /\ carrier' = out.value
                /\ sealed' = Sealed(plaintext, password, rnd)
                /\ UNCHANGED <<dec, damage, calls>>

\* what may happen to an envelope: all of it lost, its fixed header cut one
\* byte short, its ciphertext cut one byte short, its first byte overwritten,
\* a zero byte appended (as the pixel padding of codec_png appends)
Manglings == { "empty", "short_header", "short_ciphertext", "magic", "append" }

Mangled(envelope, how) ==
    IF how = "empty" THEN <<>>
    ELSE IF how = "short_header" THEN Slice(envelope, 0, HEADER_LEN - 1)
    ELSE IF how = "short_ciphertext" THEN Slice(envelope, 0, Len(envelope) - 1)
    ELSE IF how = "magic" THEN PutAt(envelope, 0, <<0>>)
    ELSE envelope \o <<0>>

\* the envelope is altered before it is opened
Mangle ==
    /\ codec = "enc"
    /\ ~dec.done
    /\ damage = NoDamage
    /\ Len(carrier) >= HEADER_LEN
    /\ \E how \in Manglings :
        /\ carrier' = Mangled(carrier, how)
        /\ damage' = [kind |-> how, at |-> 0]
    /\ UNCHANGED <<codec, encs, dec, sealed, calls>>

\* encryption.decrypt(encrypted_data, password)
Decrypt ==
    /\ codec = "enc"
    /\ ~dec.done
    /\ \E password \in EnvelopePasswords :
        dec' = [done |-> TRUE, password |-> password,
                result |-> decrypt(sealed, carrier, password)]
    /\ UNCHANGED <<codec, encs, carrier, sealed, damage, calls>>

NextEnvelope == Encrypt \/ Mangle \/ Decrypt
SpecEnvelope == Init /\ [][NextEnvelope]_vars

----------------------------------------------------------------------------
(* The raster the image encoder chooses: _square_dimensions() on pixel     *)
(* counts of its own, next to the encode calls that use it                 *)

\* the largest pixel count tried
MaxPixels == 300

\* _square_dimensions(num_pixels)
SquareDimensions ==
    /\ codec = "none"
    /\ \E num_pixels \in 1..MaxPixels :
        LET dims == png_square_dimensions(num_pixels)
            out  == [num_pixels |-> num_pixels, width |-> dims[1],
                     height |-> dims[2]]
        IN  /\ codec' = "raster"
            /\ encs' = <<Call(<<>>, <<>>, <<>>, None, NoRnd, out)>>
    /\ UNCHANGED <<carrier, dec, sealed, damage, calls>>

NextRaster == PngEncode \/ SquareDimensions
SpecRaster == Init /\ [][NextRaster]_vars

----------------------------------------------------------------------------
(* A decode call followed statement by statement.  The steps of            *)
(* codec_mp3.decode are the suffix test (ScanForEndMarker), the two        *)
(* backward searches (LocateStartMarker), the opening of the envelope      *)
(* (OptionalDecrypt), the header fields (ParseHeader), the length          *)
(* comparison and the slice (SlicePayload), the CRC-32 comparison          *)
(* (VerifyChecksum).  codec_png.decode has no markers to look for: it      *)
(* opens the image and flattens its pixels (OpenImage), then goes on with  *)
(* the same four steps.                                                    *)

\* the call raises
Fails(c, kind, at) == [c EXCEPT !.step = "Failed", !.result = Failed(kind, at)]

\* the envelope opened with a key kept at module level: the key the latest
\* encrypt() derived for this password, whichever call made it
open_envelope_cached_key(sealed_now, c, corrupted) ==
    LET salt   == Slice(c.work, ENC_MAGIC_LEN, ENC_MAGIC_LEN + SALT_LEN)
        cached == {r \in sealed_now : r.key[1] = c.password /\ r.key[2] # salt}
        d      == decrypt(sealed_now, c.work, c.password)
    IN  IF Falsy(c.password) THEN Fails(c, corrupted, "password")
        ELSE IF cached # {}
            THEN [c EXCEPT !.step = "ParseHeader",
                           !.work = (CHOOSE r \in cached : TRUE).pt]
        ELSE IF d.kind # "ok" THEN Fails(c, corrupted, d.kind)
        ELSE [c EXCEPT !.step = "ParseHeader", !.work = d.value]

\* the envelope is opened: a password is required, and what decrypt()
\* raises is raised again as the codec's corrupted-file error
open_envelope(sealed_now, c, corrupted) ==
    IF Falsy(c.password) THEN Fails(c, corrupted, "password")
    ELSE LET d == decrypt(sealed_now, c.work, c.password)
         IN  IF d.kind # "ok" THEN Fails(c, corrupted, d.kind)
             ELSE [c EXCEPT !.step = "ParseHeader", !.work = d.value]

\* the SlicePayload step returning the slice at once, its checksum not
\* compared
mp3_slice_payload_and_return(c) ==
    IF c.header.offset + c.header.img_size > Len(c.work)
    THEN Fails(c, "CorruptedFileError", "length")
    ELSE LET image_bytes == Slice(c.work, c.header.offset,
                                  c.header.offset + c.header.img_size)
         IN  [c EXCEPT !.step = "Done",
                       !.result = Decoded(image_bytes, c.header.image_filename,
                                          Len(image_bytes))]

\* _find_and_parse_block(): the length comparison and the slice
mp3_slice_payload(c) ==
    IF c.header.offset + c.header.img_size > Len(c.work)
    THEN Fails(c, "CorruptedFileError", "length")
    ELSE [c EXCEPT !.step = "VerifyChecksum",
                   !.work = Slice(c.work, c.header.offset,
                                  c.header.offset + c.header.img_size)]

\* codec_mp3.decode(mp3_bytes, password), the call c taken one step further
mp3_decode_step(sealed_now, c) ==
    IF c.step = "ScanForEndMarker" THEN
        IF ~EndsWith(c.input, TAIL_MAGIC) THEN Fails(c, "NotEncodedError", "tail")
        ELSE [c EXCEPT !.step = "LocateStartMarker"]
    ELSE IF c.step = "LocateStartMarker" THEN
        LET tail_start    == Len(c.input) - TAIL_LEN
            enc_magic_pos == RFind(c.input, ENC_MAGIC, tail_start)
            magic_pos     == RFind(c.input, MP3_MAGIC, tail_start)
        IN  IF enc_magic_pos # -1 /\ (magic_pos = -1 \/ enc_magic_pos > magic_pos)
            THEN [c EXCEPT !.step = "OptionalDecrypt",
                           !.work = Slice(c.input, enc_magic_pos, tail_start)]
            ELSE IF magic_pos # -1
            THEN [c EXCEPT !.step = "ParseHeader",
                           !.work = Slice(c.input, magic_pos, tail_start)]
            ELSE Fails(c, "CorruptedFileError", "magic")
    ELSE IF c.step = "OptionalDecrypt"
        THEN open_envelope(sealed_now, c, "CorruptedFileError")
    ELSE IF c.step = "ParseHeader" THEN
        IF MAGIC_LEN + HEADER_FIXED > Len(c.work)
        THEN Fails(c, "CorruptedFileError", "header")
        ELSE
          LET version   == UnpackBE(Slice(c.work, MAGIC_LEN, MAGIC_LEN + 2))
              fname_len == UnpackBE(Slice(c.work, MAGIC_LEN + 14, MAGIC_LEN + 16))
              name_at   == MAGIC_LEN + HEADER_FIXED
          IN  IF version # MP3_VERSION
                  THEN Fails(c, "UnsupportedVersionError", "version")
              ELSE IF name_at + fname_len > Len(c.work)
                  THEN Fails(c, "CorruptedFileError", "filename")
              ELSE [c EXCEPT !.step = "SlicePayload",
                      !.header =
                        [img_size |-> UnpackBE(Slice(c.work, MAGIC_LEN + 2,
                                                     MAGIC_LEN + 10)),
                         expected_crc |-> Slice(c.work, MAGIC_LEN + 10,
                                                MAGIC_LEN + 14),
                         image_filename |->
                            utf8_decode(Slice(c.work, name_at, name_at + fname_len)),
                         offset |-> name_at + fname_len]]
    ELSE IF c.step = "SlicePayload" THEN mp3_slice_payload(c)
    ELSE \* VerifyChecksum
        IF crc32(c.work) # c.header.expected_crc
        THEN Fails(c, "CorruptedFileError", "crc")
        ELSE [c EXCEPT !.step = "Done",
                       !.result = Decoded(c.work, c.header.image_filename,
                                          Len(c.work))]

\* codec_png.decode(png_bytes, password), the call c taken one step further
png_decode_step(sealed_now, c) ==
    IF c.step = "OpenImage" THEN
        LET stream == image_tobytes(c.input)
        IN  [c EXCEPT !.work = stream,
                      !.step = IF is_encrypted(stream) THEN "OptionalDecrypt"
                               ELSE "ParseHeader"]
    ELSE IF c.step = "OptionalDecrypt"
        THEN open_envelope(sealed_now, c, "PngCorruptedError")
    ELSE IF c.step = "ParseHeader" THEN
        LET h == png_parse_header(c.work)
        IN  IF h.kind # "ok" THEN Fails(c, h.kind, h.at)
            ELSE [c EXCEPT !.step = "SlicePayload", !.header = h]
    ELSE IF c.step = "SlicePayload" THEN
        LET data_start == c.header.header_total
            data_end   == data_start + c.header.data_len
        IN  IF data_end > Len(c.work) THEN Fails(c, "PngCorruptedError", "length")
            ELSE [c EXCEPT !.step = "VerifyChecksum",
                           !.work = Slice(c.work, data_start, data_end)]
    ELSE \* VerifyChecksum
        IF crc32(c.work) # c.header.crc32
        THEN Fails(c, "PngCorruptedError", "crc")
        ELSE [c EXCEPT !.step = "Done",
                       !.result = Decoded(c.work, c.header.filename,
                                          c.header.data_len)]

\* the steps at which a call is over
Terminal == { "Done", "Failed" }

\* thread t enters decode(carrier, password) of the codec in use
DecodeBegin(t) ==
    /\ codec \in {"png", "mp3"}
    /\ calls[t].step = "Idle"
    /\ \E password \in DecodePasswords :
        calls' = [calls EXCEPT ![t] =
                    [IdleCall EXCEPT
                        !.op = IF codec = "png" THEN "png_decode" ELSE "mp3_decode",
                        !.step = IF codec = "png" THEN "OpenImage"
                                 ELSE "ScanForEndMarker",
                        !.password = password,
                        !.input = carrier]]
    /\ UNCHANGED <<codec, encs, carrier, dec, sealed, damage>>

\* the decode call of thread t runs its next step
DecodeStep(t) ==
    /\ calls[t].op \in {"png_decode", "mp3_decode"}
    /\ calls[t].step \notin Terminal
    /\ calls' = [calls EXCEPT ![t] =
                    IF calls[t].op = "png_decode"
                    THEN png_decode_step(sealed, calls[t])
                    ELSE mp3_decode_step(sealed, calls[t])]
    /\ UNCHANGED <<codec, encs, carrier, dec, sealed, damage>>

\* one thread decoding files of every kind; a call that has begun runs on to
\* its end, there being nothing in it to wait for
NextSteps ==
    \/ PngForeign \/ Mp3Foreign \/ Mp3Raw
    \/ DecodeBegin("a") \/ DecodeStep("a")
SpecSteps == Init /\ [][NextSteps]_vars /\ WF_vars(DecodeStep("a"))

\* the image codec, its decode followed statement by statement
NextBranch == PngEncode \/ DecodeBegin("a") \/ DecodeStep("a")
SpecBranch == Init /\ [][NextBranch]_vars

----------------------------------------------------------------------------
(* Two requests served at once.  Each thread runs one call, encode or      *)
(* decode, statement by statement on its own arguments and locals; the     *)
(* threads' steps interleave in any order.  The file both requests were    *)
(* sent is the carrier an earlier encode returned.                         *)

\* codec_png.encode(data, filename, password), the call c taken one step
\* further; rnd is what os.urandom and the cipher return in OptionalEncrypt
png_encode_step(c, rnd) ==
    IF c.step = "BuildHeader" THEN
        [c EXCEPT !.work = png_plain(c.input.data, c.input.filename),
                  !.step = IF Falsy(c.password) THEN "Pack" ELSE "OptionalEncrypt"]
    ELSE IF c.step = "OptionalEncrypt" THEN
        [c EXCEPT !.work = encrypt(c.work, c.password, rnd), !.rnd = rnd,
                  !.step = "Pack"]
    ELSE \* Pack
        LET img == png_pack(c.work)
        IN  [c EXCEPT !.step = "Done",
                      !.result = [png_bytes |-> img, image_width |-> img.width,
                                  image_height |-> img.height,
                                  input_size |-> Len(c.input.data)]]

\* codec_mp3.encode(mp3_bytes, image_bytes, image_filename, password), the
\* call c taken one step further
mp3_encode_step(c, rnd) ==
    IF c.step = "StripBlock" THEN
        [c EXCEPT !.header = mp3_strip(c.input.host), !.step = "BuildBlock"]
    ELSE IF c.step = "BuildBlock" THEN
        [c EXCEPT !.work = mp3_plain(c.input.data, Mp3Name(c.input.filename)),
                  !.step = IF Falsy(c.password) THEN "Append" ELSE "OptionalEncrypt"]
    ELSE IF c.step = "OptionalEncrypt" THEN
        [c EXCEPT !.work = encrypt(c.work, c.password, rnd), !.rnd = rnd,
                  !.step = "Append"]
    ELSE \* Append
        LET output == c.header \o c.work \o TAIL_MAGIC
        IN  [c EXCEPT !.step = "Done",
                      !.result = [mp3_bytes |-> output, mp3_size |-> Len(c.header),
                                  image_size |-> Len(c.input.data),
                                  total_size |-> Len(output)]]

\* the carrier on the server: encode(ForeignData, ForeignName, password) of
\* either codec made it earlier
Stored ==
    /\ codec = "none"
    /\ \E c \in {"png", "mp3"}, password \in ForeignPasswords :
        LET plain == IF c = "png" THEN png_plain(ForeignData, ForeignName)
                     ELSE mp3_plain(ForeignData, ForeignName)
            rnd   == ForeignDraw(plain, password)
            out   == IF c = "png"
                     THEN png_encode(ForeignData, ForeignName, password, rnd)
                     ELSE mp3_encode(Frame, ForeignData, ForeignName, password, rnd)
        IN  /\ codec' = c
            /\ encs' = <<Call(IF c = "png" THEN <<>> ELSE Frame, ForeignData,
                              ForeignName, password, rnd, out)>>
            /\ carrier' = IF c = "png" THEN out.png_bytes ELSE out.mp3_bytes
            /\ sealed' = Sealed(plain, password, rnd)
    /\ UNCHANGED <<dec, damage, calls>>

\* what the two requests ask to encode
ThreadPayloads == { <<>>, <<0, 255>> }
ThreadFilenames == { <<98>> }
ThreadPasswords == { None, "p" }

\* the salt os.urandom hands a thread: 16 fresh bytes, unlike the salt of
\* any other call
ThreadSalt(t) == Fill(SALT_LEN, IF t = "a" THEN 18 ELSE 19)

\* what os.urandom and the cipher may return to thread t for a plaintext
ThreadDraws(t, plaintext, password) ==
    {o \in {[salt |-> ThreadSalt(t), nonce |-> Fill(NONCE_LEN, 34),
             tag |-> Fill(TAG_LEN, 51), ct |-> Fill(Len(plaintext), 170)]} :
        aesgcm_possible(sealed,
            aesgcm_record(derive_key(password, o.salt), o.nonce, plaintext,
                          o.ct, o.tag))}

\* thread t enters encode() of the codec in use; the audio codec is given
\* the stored carrier as its host
EncodeBegin(t) ==
    /\ codec \in {"png", "mp3"}
    /\ calls[t].step = "Idle"
    /\ \E data \in ThreadPayloads, filename \in ThreadFilenames,
          password \in ThreadPasswords :
        calls' = [calls EXCEPT ![t] =
                    [IdleCall EXCEPT
                        !.op = IF codec = "png" THEN "png_encode" ELSE "mp3_encode",
                        !.step = IF codec = "png" THEN "BuildHeader"
                                 ELSE "StripBlock",
                        !.password = password,
                        !.input = [host |-> IF codec = "png" THEN <<>> ELSE carrier,
                                   data |-> data, filename |-> filename]]]
    /\ UNCHANGED <<codec, encs, carrier, dec, sealed, damage>>

\* the encode call of thread t runs its next step
EncodeStep(t) ==
    /\ calls[t].op \in {"png_encode", "mp3_encode"}
    /\ calls[t].step \notin Terminal
    /\ \E rnd \in (IF calls[t].step = "OptionalEncrypt"
                   THEN ThreadDraws(t, calls[t].work, calls[t].password)
                   ELSE {NoRnd}) :
        /\ calls' = [calls EXCEPT ![t] =
                        IF calls[t].op = "png_encode"
                        THEN png_encode_step(calls[t], rnd)
                        ELSE mp3_encode_step(calls[t], rnd)]
        /\ sealed' = IF calls[t].step = "OptionalEncrypt"
                     THEN Sealed(calls[t].work, calls[t].password, rnd)
                     ELSE sealed
    /\ UNCHANGED <<codec, encs, carrier, dec, damage>>

NextConcurrent ==
    \/ Stored
    \/ \E t \in Threads :
        EncodeBegin(t) \/ EncodeStep(t) \/ DecodeBegin(t) \/ DecodeStep(t)
SpecConcurrent == Init /\ [][NextConcurrent]_vars

----------------------------------------------------------------------------
(* The same encode call made twice                                         *)

\* encode() is called once more with the arguments of the first call
EncodeAgain ==
    /\ codec \in {"png", "mp3"}
    /\ Len(encs) = 1
    /\ LET call  == encs[1]
           plain == IF codec = "png" THEN png_plain(call.data, call.filename)
                    ELSE mp3_plain(call.data, Mp3Name(call.filename))
       IN  \E rnd \in Draws(plain, call.password) :
            LET out == IF codec = "png"
                       THEN png_encode(call.data, call.filename, call.password, rnd)
                       ELSE mp3_encode(call.host, call.data, call.filename,
                                       call.password, rnd)
            IN  /\ encs' = Append(encs, Call(call.host, call.data, call.filename,
                                             call.password, rnd, out))
                /\ carrier' = IF codec = "png" THEN out.png_bytes ELSE out.mp3_bytes
                /\ sealed' = Sealed(plain, call.password, rnd)
    /\ UNCHANGED <<codec, dec, damage, calls>>

NextAgain == PngEncode \/ Mp3Encode \/ EncodeAgain
SpecAgain == Init /\ [][NextAgain]_vars

----------------------------------------------------------------------------
(* The two generations of the image codec given the same arguments         *)

\* codec.encode(data, filename), on the arguments codec_png.encode had
CodecEncode ==
    /\ codec = "png"
    /\ Len(encs) = 1
    /\ damage = NoDamage
    /\ calls["b"].step = "Idle"
    /\ calls' = [calls EXCEPT !["b"] =
                    [IdleCall EXCEPT
                        !.op = "codec_encode",
                        !.step = "Done",
                        !.input = [host |-> <<>>, data |-> encs[1].data,
                                   filename |-> encs[1].filename],
                        !.result = codec_encode(encs[1].data, encs[1].filename)]]
    /\ UNCHANGED <<codec, encs, carrier, dec, sealed, damage>>

\* codec.decode(png_bytes), on the image in hand
CodecDecode ==
    /\ codec = "png"
    /\ calls["a"].step = "Idle"
    /\ LET result == codec_decode(carrier)
       IN  calls' = [calls EXCEPT !["a"] =
                        [IdleCall EXCEPT
                            !.op = "codec_decode",
                            !.step = IF result.kind = "ok" THEN "Done" ELSE "Failed",
                            !.input = carrier,
                            !.result = result]]
    /\ UNCHANGED <<codec, encs, carrier, dec, sealed, damage>>

NextGenerations ==
    PngEncode \/ PngForeign \/ CodecEncode \/ CodecDecode \/ PngDecode
SpecGenerations == Init /\ [][NextGenerations]_vars

----------------------------------------------------------------------------
(* Properties                                                              *)

First == encs[1]
Last == encs[Len(encs)]

\* a name the header stores whole: not empty (an empty name is replaced by
\* the codec's default name) and at most 255 bytes once encoded
StoredWhole(filename) ==
    filename # <<>> /\ Len(utf8_encode(filename)) <= MAX_FNAME_LEN

\* one encode without a password, then one decode without a password
PlainRoundTrip(c) ==
    /\ codec = c
    /\ Len(encs) = 1
    /\ dec.done
    /\ First.password = None
    /\ dec.password = None

\* C1 as stated: the image round trip without a password returns the data,
\* the filename and the size that went in, for every data and every filename.
C1_AsStated ==
    PlainRoundTrip("png") =>
        /\ dec.result.kind = "ok"
        /\ dec.result.data = First.data
        /\ dec.result.filename = First.filename
        /\ dec.result.size = Len(First.data)

\* C1, amended: the image round trip without a password succeeds and returns
\* data == d and data_size == len(d) for every data and filename, and
\* filename == f for every non-empty filename whose UTF-8 encoding is at most
\* 255 bytes.
C1_PngRoundTrip ==
    PlainRoundTrip("png") =>
        /\ dec.result.kind = "ok"
        /\ dec.result.data = First.data
        /\ dec.result.size = Len(First.data)
        /\ StoredWhole(First.filename) => dec.result.filename = First.filename

C1_Witness ==
    /\ PlainRoundTrip("png")
    /\ First.data = <<255, 0>>
    /\ First.filename = NameFits
    /\ dec.result.kind = "ok"
    /\ dec.result.filename = NameFits

\* C2: the audio round trip without a password succeeds and returns the
\* payload, the filename and the size that went in, whatever bytes the
\* payload holds (the filename taken among the names the header stores whole).
C2_Mp3RoundTrip ==
    PlainRoundTrip("mp3") =>
        /\ dec.result.kind = "ok"
        /\ dec.result.data = First.data
        /\ dec.result.size = Len(First.data)
        /\ StoredWhole(First.filename) => dec.result.filename = First.filename

\* C3: whenever the audio decoder returns a result for a carrier encode made,
\* the bytes returned are the payload that was embedded last.
C3_NoSilentWrongBytes ==
    (codec = "mp3" /\ dec.done /\ dec.result.kind = "ok") =>
        dec.result.data = Last.data

\* C4: a carrier encoded with a non-empty password decodes, with the same
\* password, to the data and filename that went in, for both codecs and
\* whatever bytes the salt, nonce, tag and ciphertext hold (the filename taken
\* among the names the header stores whole).
C4_EncryptedRoundTrip ==
    (Len(encs) = 1 /\ dec.done /\ ~Falsy(First.password)
        /\ dec.password = First.password) =>
        /\ dec.result.kind = "ok"
        /\ dec.result.data = First.data
        /\ StoredWhole(First.filename) => dec.result.filename = First.filename

\* C5: decoding a carrier encoded with password p using a different non-empty
\* password returns no data and fails with encryption.DecryptionFailedError.
C5_WrongPasswordKind ==
    (Len(encs) = 1 /\ dec.done /\ ~Falsy(First.password)
        /\ ~Falsy(dec.password) /\ dec.password # First.password) =>
        dec.result.kind = "DecryptionFailedError"

\* the carrier's block is sealed: the pixel stream begins with the envelope
\* magic; the audio block is located at the encrypted start marker (the last
\* start marker before the end marker is the encrypted one)
CarrierSealed ==
    \/ /\ codec = "png"
       /\ StartsWith(image_tobytes(carrier), ENC_MAGIC)
    \/ /\ codec = "mp3"
       /\ EndsWith(carrier, TAIL_MAGIC)
       /\ LET tail_start == Len(carrier) - TAIL_LEN
              e == RFind(carrier, ENC_MAGIC, tail_start)
              m == RFind(carrier, MP3_MAGIC, tail_start)
          IN  e # -1 /\ e > m

\* the codec's own corrupted-error class
CorruptedClass == IF codec = "png" THEN "PngCorruptedError" ELSE "CorruptedFileError"

\* C6 as stated: decoding a sealed carrier with no password or an empty one
\* fails with InvalidPassword.
C6_AsStated ==
    (dec.done /\ Falsy(dec.password) /\ CarrierSealed) =>
        dec.result.kind = "InvalidPasswordError"

\* C6, amended: decoding a carrier whose block is sealed with no password or
\* an empty password never returns data and fails, at the password check and
\* before any decryption, with the codec's corrupted-error class
\* (PngCorruptedError / CorruptedFileError), the class a checksum mismatch
\* raises too.
C6_MissingPassword ==
    (dec.done /\ Falsy(dec.password) /\ CarrierSealed) =>
        /\ dec.result.kind = CorruptedClass
        /\ dec.result.at = "password"
        /\ dec.result.data = <<>>

C6_Witness ==
    /\ codec = "mp3"
    /\ dec.done
    /\ dec.password = ""
    /\ CarrierSealed
    /\ First.password = "p"
    /\ dec.result.kind = "CorruptedFileError"

\* C7: decoding a carrier encoded with a password, with a wrong password or
\* with none, is rejected with the codec's own corrupted-error class, and no
\* data is returned.
C7_SealedRejected ==
    (Len(encs) = 1 /\ dec.done /\ ~Falsy(First.password)
        /\ dec.password # First.password) =>
        dec.result.kind = CorruptedClass

\* two encodes without a password, the second over the first's carrier, then
\* a decode without a password
PlainReEmbed ==
    /\ codec = "mp3"
    /\ Len(encs) = 2
    /\ First.password = None
    /\ Last.password = None

\* C8: after re-embedding without passwords the carrier decodes to the second
\* payload and filename, and its first len(host) bytes are the host.
C8_ReEmbed ==
    (PlainReEmbed /\ dec.done /\ dec.password = None) =>
        /\ dec.result.kind = "ok"
        /\ dec.result.data = Last.data
        /\ dec.result.filename = Last.filename
        /\ Slice(carrier, 0, Len(First.host)) = First.host

\* C9: re-embedding over a carrier made with no password or with a non-empty
\* one removes the whole first block: mp3_size is len(host) and the carrier
\* is the host followed by the new block alone.
C9_ReplacesNotStacks ==
    (codec = "mp3" /\ Len(encs) = 2 /\ First.password # "") =>
        /\ Last.out.mp3_size = Len(First.host)
        /\ Last.out.mp3_bytes =
             First.host \o mp3_build_block(Last.data, Mp3Name(Last.filename),
                                           Last.password, Last.rnd)

\* C10: the carrier encode returns for a host this codec did not produce
\* begins with the host, byte for byte, and mp3_size is len(host).
C10_HostUntouched ==
    (codec = "mp3" /\ Len(encs) >= 1) =>
        /\ Slice(First.out.mp3_bytes, 0, Len(First.host)) = First.host
        /\ First.out.mp3_size = Len(First.host)

\* C11: after any single bit of the payload region of a carrier encode made
\* is flipped, decode returns no value and fails with the codec's
\* corrupted-error class (PngCorruptedError / CorruptedFileError).
C11_FlipDetected ==
    (damage.kind = "flip" /\ dec.done) => dec.result.kind = CorruptedClass

NoEndMarker ==
    \/ Len(carrier) < TAIL_LEN
    \/ SubSeq(carrier, Len(carrier) - TAIL_LEN + 1, Len(carrier)) # TAIL_MAGIC

RightVersion == IF codec = "png" THEN PNG_VERSION ELSE MP3_VERSION

\* the decoder got as far as parsing the header: the block is not sealed, or
\* the password is the one it was sealed with
ParseReached == Falsy(First.password) \/ dec.password = First.password

\* a foreign file whose header passes every check up to the filename
HeaderPasses ==
    /\ damage.kind = "foreign"
    /\ damage.edit.magic
    /\ damage.edit.version = RightVersion
    /\ damage.edit.more_name = 0
    /\ ~damage.edit.short

\* its data_length exceeds the bytes that follow the header
LengthShort == HeaderPasses /\ damage.edit.more_data = Excess

\* C13 as stated: when the declared data_length exceeds the bytes available,
\* decode fails with a kind that is not the kind a checksum mismatch raises.
C13_AsStated ==
    (LengthShort /\ dec.done /\ ParseReached) =>
        /\ dec.result.kind # "ok"
        /\ dec.result.kind # CorruptedClass

\* C13, amended: when the header's data_length exceeds the bytes available
\* after the header (in the pixel stream, the opened envelope plaintext or
\* the trailing block), decode returns no data, under any password; once
\* the header is parsed it fails at the length comparison, before any
\* checksum is computed, with the codec's corrupted-error class
\* (PngCorruptedError / CorruptedFileError), which is also the class a
\* checksum mismatch raises.
C13_DeclaredLength ==
    /\ (LengthShort /\ dec.done) =>
          /\ dec.result.kind # "ok"
          /\ dec.result.data = <<>>
          /\ ParseReached => dec.result = Failed(CorruptedClass, "length")
    /\ (HeaderPasses /\ damage.edit.more_data = 0 /\ ~damage.edit.crc
            /\ dec.done /\ ParseReached) =>
          dec.result = Failed(CorruptedClass, "crc")

C13_Witness ==
    /\ codec = "png"
    /\ LengthShort
    /\ damage.edit.crc
    /\ First.password = "p"
    /\ dec.done
    /\ dec.password = "p"
    /\ dec.result = Failed("PngCorruptedError", "length")

\* C14: for a filename whose UTF-8 encoding exceeds 255 bytes, the filename
\* a successful decode returns encodes to at most 255 bytes, and those bytes
\* are a prefix of the original filename's encoded bytes.
C14_FilenameTruncated ==
    (Len(encs) = 1 /\ dec.done /\ dec.result.kind = "ok"
        /\ Len(utf8_encode(First.filename)) > MAX_FNAME_BYTES) =>
        LET got == utf8_encode(dec.result.filename)
        IN  /\ Len(got) <= MAX_FNAME_BYTES
            /\ got = Slice(utf8_encode(First.filename), 0, Len(got))

EnvelopeCut ==
    \/ Len(carrier) < 64
    \/ SubSeq(carrier, 1, 8) # <<83, 80, 88, 76, 69, 78, 67, 0>>
    \/ UnpackBE(SubSeq(carrier, 57, 64)) > Len(carrier) - 64

\* bytes follow the ciphertext of an otherwise intact envelope
EnvelopeExtended == damage.kind = "append"

\* C16 as stated: decrypt with a non-empty password fails with
\* DecryptionFailedError for every malformed envelope, bytes following the
\* ciphertext included; with an empty password it fails with
\* InvalidPasswordError.
C16_AsStated ==
    (codec = "enc" /\ dec.done) =>
        /\ Falsy(dec.password) => dec.result = Raise("InvalidPasswordError")
        /\ (~Falsy(dec.password) /\ (EnvelopeCut \/ EnvelopeExtended)) =>
              dec.result = Raise("DecryptionFailedError")

\* C16, amended: decrypt with no password or an empty one fails with
\* InvalidPasswordError whatever the buffer; with a non-empty password it
\* fails with DecryptionFailedError when the buffer is shorter than the
\* 64-byte fixed header, when its first 8 bytes are not the envelope magic,
\* and when fewer bytes than the declared ciphertext length follow the
\* header.  Bytes that follow the ciphertext are ignored: with them, the
\* right password still returns the plaintext.
C16_MalformedEnvelope ==
    (codec = "enc" /\ dec.done) =>
        /\ Falsy(dec.password) => dec.result = Raise("InvalidPasswordError")
        /\ (~Falsy(dec.password) /\ EnvelopeCut) =>
              dec.result = Raise("DecryptionFailedError")
        /\ (EnvelopeExtended /\ ~Falsy(dec.password)
                /\ dec.password = First.password) =>
              dec.result = Ok(First.data)

C16_Witness ==
    /\ codec = "enc"
    /\ damage.kind = "append"
    /\ First.data = <<255, 0>>
    /\ First.password = "p"
    /\ dec.done
    /\ dec.password = "p"
    /\ dec.result = Ok(<<255, 0>>)

\* the header + payload stream a successful decode parsed: the pixel stream
\* or the bytes from the last start marker to the end marker, opened with
\* the decode password when sealed
ParsedStream ==
    IF codec = "png"
    THEN LET stream == image_tobytes(carrier)
         IN  IF SubSeq(stream, 1, 8) = ENC_MAGIC
             THEN decrypt(sealed, stream, dec.password).value ELSE stream
    ELSE LET tail_start == Len(carrier) - 8
             e == RFind(carrier, ENC_MAGIC, tail_start)
             m == RFind(carrier, MP3_MAGIC, tail_start)
         IN  IF e > m
             THEN decrypt(sealed, Slice(carrier, e, tail_start), dec.password).value
             ELSE Slice(carrier, m, tail_start)

\* where DATA_LEN(8) | CRC32(4) | FNAME_LEN(2) begin in that stream: after
\* MAGIC(4) | VERSION(4) in an image, MAGIC(8) | VERSION(2) in an MP3
LengthFieldAt == IF codec = "png" THEN 8 ELSE 10

\* C17: every successful decode returns a size equal to the length of the
\* returned bytes and to the header's declared length; the CRC-32 of the
\* returned bytes is the header's checksum; the returned bytes are exactly
\* the declared number of bytes that follow the header, so padding and
\* trailing bytes are never part of the result.
C17_ResultConsistent ==
    (codec \in {"png", "mp3"} /\ dec.done /\ dec.result.kind = "ok") =>
        LET stream    == ParsedStream
            at        == LengthFieldAt
            declared  == UnpackBE(SubSeq(stream, at + 1, at + 8))
            checksum  == SubSeq(stream, at + 9, at + 12)
            fname_len == UnpackBE(SubSeq(stream, at + 13, at + 14))
            header_total == at + 14 + fname_len
        IN  /\ dec.result.size = Len(dec.result.data)
            /\ dec.result.size = declared
            /\ crc32(dec.result.data) = checksum
            /\ dec.result.data =
                  SubSeq(stream, header_total + 1, header_total + declared)

C17_Witness ==
    /\ codec = "png"
    /\ Len(encs) = 1
    /\ First.data = <<255, 0>>
    /\ First.password = "p"
    /\ dec.done
    /\ dec.result.kind = "ok"
    /\ dec.result.size = 2
    /\ Len(image_tobytes(carrier)) > PayloadAt(First) + 2

\* the length of the block an encode call appends: the header and the data,
\* inside an envelope when a password is given, and the 8-byte end marker
AppendedLen(call) ==
    LET name  == IF call.filename = <<>> THEN MP3_DEFAULT_NAME ELSE call.filename
        plain == 8 + 16 + Min(Len(utf8_encode(name)), 255) + Len(call.data)
    IN  (IF Falsy(call.password) THEN plain ELSE 64 + plain) + 8

\* C18: for every call of codec_mp3.encode, image_size is len(payload),
\* total_size is len(mp3_bytes), total_size is mp3_size plus the length of
\* the appended block with its end marker, and total_size > mp3_size.
C18_EncodeMetadata ==
    codec = "mp3" =>
        \A n \in 1..Len(encs) :
            LET call == encs[n]
            IN  /\ call.out.image_size = Len(call.data)
                /\ call.out.total_size = Len(call.out.mp3_bytes)
                /\ call.out.total_size = call.out.mp3_size + AppendedLen(call)
                /\ call.out.total_size > call.out.mp3_size

C18_Witness ==
    /\ codec = "mp3"
    /\ Len(encs) = 2
    /\ First.host = Frame
    /\ First.password = "p"
    /\ First.out.total_size = First.out.mp3_size + 64 + 8 + 16 + Len(First.data) + 8 + 9
    /\ First.filename = <<>>
    /\ Last.password = None
    /\ Last.out.total_size = Last.out.mp3_size + 8 + 16 + 1 + 1 + 8

\* C19: decode locates the block at the last start marker, of either kind,
\* before the end marker, and that marker's kind selects the path; the last
\* marker never lies in the audio bytes encode kept, so the result of
\* decoding a carrier encode made is the result of decoding the appended
\* block alone, whatever marker sequences the host holds.
C19_LastMarkerWins ==
    (codec = "mp3" /\ Len(encs) >= 1 /\ dec.done) =>
        LET tail_start == Len(carrier) - 8
            e == RFind(carrier, ENC_MAGIC, tail_start)
            m == RFind(carrier, MP3_MAGIC, tail_start)
            block_at == Last.out.mp3_size
        IN  /\ (e >= block_at \/ m >= block_at)
            /\ dec.result =
                  mp3_decode(sealed, SubSeq(carrier, block_at + 1, Len(carrier)),
                             dec.password)
            /\ (m > e) => dec.result = mp3_parse_block(SubSeq(carrier, m + 1, tail_start))
            /\ (e > m /\ Falsy(dec.password)) =>
                  dec.result = Failed("CorruptedFileError", "password")
            /\ (e > m /\ ~Falsy(dec.password)) =>
                  LET d == decrypt(sealed, SubSeq(carrier, e + 1, tail_start),
                                   dec.password)
                  IN  dec.result = IF d.kind = "ok" THEN mp3_parse_block(d.value)
                                   ELSE Failed("CorruptedFileError", d.kind)

C19_Witness ==
    /\ codec = "mp3"
    /\ Len(encs) = 1
    /\ First.host = Frame \o ENC_MAGIC \o <<7>>
    /\ First.password = None
    /\ First.data = <<0, 255>>
    /\ dec.done
    /\ dec.password = None
    /\ dec.result.kind = "ok"
    /\ dec.result.data = <<0, 255>>

\* the failure kinds that say "not this codec's format"
FormatMismatchKinds == {"NotAPngCodecFile", "NotEncodedError"}
\* the failure kinds that say "version not recognized"
UnsupportedVersionKinds == {"PngVersionError", "UnsupportedVersionError"}

\* a foreign file whose header was parsed and decoded
ForeignParsed == damage.kind = "foreign" /\ dec.done /\ ParseReached

\* C20 as stated: a stream shorter than the fixed prefix, or with a wrong
\* magic (whatever its version), reports FormatMismatch; a stream with the
\* right magic and an unrecognized version reports UnsupportedVersion, its
\* filename cut off or not.
C20_AsStated ==
    ForeignParsed =>
        LET e == damage.edit
        IN  /\ (e.short \/ ~e.magic) => dec.result.kind \in FormatMismatchKinds
            /\ (~e.short /\ e.magic /\ e.version # RightVersion) =>
                  dec.result.kind \in UnsupportedVersionKinds

\* the check a header with the edit e fails first, or "later" when it
\* passes every header check
FirstFailure(e) ==
    IF codec = "png"
    THEN IF e.short THEN Failed("NotAPngCodecFile", "prefix")
         ELSE IF ~e.magic THEN Failed("NotAPngCodecFile", "magic")
         ELSE IF e.version # 1 THEN Failed("PngVersionError", "version")
         ELSE IF e.more_name > 0 THEN Failed("PngCorruptedError", "filename")
         ELSE Failed("later", "later")
    ELSE IF ~e.magic /\ Falsy(First.password)
              THEN Failed("CorruptedFileError", "magic")
         ELSE IF e.short THEN Failed("CorruptedFileError", "header")
         ELSE IF e.version # 2 THEN Failed("UnsupportedVersionError", "version")
         ELSE IF e.more_name > 0 THEN Failed("CorruptedFileError", "filename")
         ELSE Failed("later", "later")

\* C20, amended: the header checks run in this order and the first that
\* fails decides the failure.  codec_png: stream shorter than the 22-byte
\* prefix (NotAPngCodecFile), magic mismatch (NotAPngCodecFile), version
\* other than 1 (PngVersionError), stream shorter than header_total_bytes
\* (PngCorruptedError).  codec_mp3: no start marker before the end marker
\* (CorruptedFileError), block shorter than the start marker and the 16
\* fixed bytes (CorruptedFileError), version other than 2
\* (UnsupportedVersionError), filename cut off (CorruptedFileError); the
\* first 8 bytes of a decrypted block are skipped without being compared
\* with the magic.  A header that passes them fails, if at all, at the
\* length or the checksum comparison.
C20_ParseOrder ==
    ForeignParsed =>
        LET first == FirstFailure(damage.edit)
        IN  IF first.kind = "later"
            THEN dec.result.at \in {"length", "crc", "return"}
            ELSE dec.result = first

C20_Witness ==
    /\ codec = "png"
    /\ ForeignParsed
    /\ ~damage.edit.short
    /\ damage.edit.magic
    /\ damage.edit.version = 3
    /\ damage.edit.more_name = Excess
    /\ First.password = "p"
    /\ dec.result = Failed("PngVersionError", "version")

\* the number of pixels encode() computes for a call: the header and the
\* data, inside an envelope when a password is given, three bytes a pixel
PixelCount(call) == CeilDiv(PayloadAt(call) + Len(call.data), 3)

\* width * height >= n, (height - 1) * width < n, height <= width
RasterFits(n, width, height) ==
    /\ width * height >= n
    /\ (height - 1) * width < n
    /\ height <= width

\* C21: for every pixel count n >= 1, width = ceil(sqrt(n)) and
\* height = ceil(n / width) give width * height >= n,
\* (height - 1) * width < n and height <= width; the pixel count of every
\* encode call is at least 8 (the header alone is at least 22 bytes), and
\* the raster it returns has these dimensions and is never empty.
C21_RasterDimensions ==
    /\ codec = "raster" =>
        LET n == First.out.num_pixels
            w == First.out.width
            h == First.out.height
        IN  /\ w * w >= n /\ (w - 1) * (w - 1) < n
            /\ RasterFits(n, w, h)
    /\ codec = "png" =>
        LET n == PixelCount(First)
            w == First.out.image_width
            h == First.out.image_height
        IN  /\ n >= 8
            /\ w * w >= n /\ (w - 1) * (w - 1) < n
            /\ RasterFits(n, w, h)
            /\ carrier.width = w /\ carrier.height = h
            /\ Len(carrier.rows) = h /\ h >= 1
            /\ \A y \in 1..h : Len(carrier.rows[y]) = w

\* empty data under a one-letter name: 23 bytes, 8 pixels, a 3 x 3 raster
\* with one pixel to spare
C21_Witness ==
    /\ codec = "png"
    /\ First.data = <<>>
    /\ First.filename = <<97>>
    /\ First.password = None
    /\ PixelCount(First) = 8
    /\ First.out.image_width = 3
    /\ First.out.image_height = 3
    /\ carrier.rows[3][3] = <<0, 0, 0>>

\* the steps the claim names, in its order, ending in Done
Pipeline ==
    << "ScanForEndMarker", "LocateStartMarker", "OptionalDecrypt", "ParseHeader",
       "SlicePayload", "VerifyChecksum", "Done" >>

\* the place of a step in the pipeline, 0 for a step that is not in it
Rank(step) ==
    IF \E i \in 1..Len(Pipeline) : Pipeline[i] = step
    THEN CHOOSE i \in 1..Len(Pipeline) : Pipeline[i] = step
    ELSE 0

\* from step s the call goes to the next step of the pipeline, past
\* OptionalDecrypt when there is no envelope, or fails
Advances(s, n) ==
    \/ n = "Failed"
    \/ Rank(s) > 0 /\ Rank(n) = Rank(s) + 1
    \/ s = "LocateStartMarker" /\ n = "ParseHeader"

\* C22 as stated: every decode call enters at ScanForEndMarker and goes
\* through LocateStartMarker, (OptionalDecrypt), ParseHeader, SlicePayload,
\* VerifyChecksum in that order, each step followed by the next or by a
\* failure.
C22_AsStated ==
    [][\A t \in Threads :
        LET s == calls[t].step
            n == calls'[t].step
        IN  n # s =>
              IF s = "Idle" THEN n = "ScanForEndMarker"
              ELSE s \notin Terminal /\ Advances(s, n)]_vars

\* the same for a call of either decoder: the image decoder enters at
\* OpenImage, and goes from there to OptionalDecrypt or to ParseHeader
StepsInOrder ==
    \A t \in Threads :
        LET s == calls[t].step
            n == calls'[t].step
        IN  n # s =>
              IF s = "Idle"
                  THEN n = (IF calls'[t].op = "png_decode" THEN "OpenImage"
                            ELSE "ScanForEndMarker")
              ELSE IF s = "OpenImage"
                  THEN calls[t].op = "png_decode"
                        /\ n \in {"OptionalDecrypt", "ParseHeader", "Failed"}
              ELSE /\ s \notin Terminal
                   /\ Advances(s, n)
                   /\ calls[t].op = "png_decode" =>
                        s \notin {"ScanForEndMarker", "LocateStartMarker"}

\* C22, amended: a codec_mp3.decode call visits ScanForEndMarker,
\* LocateStartMarker, (OptionalDecrypt), ParseHeader, SlicePayload,
\* VerifyChecksum in that order; a codec_png.decode call has no marker
\* steps and visits OpenImage, (OptionalDecrypt), ParseHeader, SlicePayload,
\* VerifyChecksum in that order.  No step is entered twice, each step is
\* followed by the next or by a terminal failure, every call that has begun
\* ends in Done or in a failure, and a result is returned only from
\* VerifyChecksum, after the checksums compared equal.
C22_DecodePipeline ==
    /\ [][StepsInOrder]_vars
    /\ \A t \in Threads :
        (calls[t].step # "Idle") ~> (calls[t].step \in Terminal)
    /\ [][\A t \in Threads :
            (calls'[t].step = "Done" /\ calls[t].step # "Done") =>
                /\ calls[t].step = "VerifyChecksum"
                /\ crc32(calls[t].work) =
                     (IF calls[t].op = "png_decode" THEN calls[t].header.crc32
                      ELSE calls[t].header.expected_crc)
                /\ calls'[t].result.kind = "ok"
                /\ calls'[t].result.data = calls[t].work]_vars
    /\ [](\A t \in Threads :
            calls[t].result.kind = "ok" <=> calls[t].step = "Done")

\* a sealed block in an MP3, decoded with its password: located at the
\* envelope's marker, opened, parsed, sliced, verified, returned
C22_Witness ==
    /\ codec = "mp3"
    /\ Len(encs) = 1
    /\ First.password = "p"
    /\ calls["a"].op = "mp3_decode"
    /\ calls["a"].password = "p"
    /\ calls["a"].step = "Done"
    /\ calls["a"].header.img_size = Len(ForeignData)
    /\ calls["a"].result = Decoded(ForeignData, ForeignName, Len(ForeignData))

\* the first encode call was given a password that seals the stream
EncodedSealed == First.password # None /\ First.password # ""

\* C23: the pixel stream codec_png.encode produces without a password begins
\* with the 4-byte plain magic and the version field, never with the
\* envelope magic; the stream it produces with a non-empty password begins
\* with the envelope magic; and decode takes the path that matches: it opens
\* the envelope exactly when the carrier was encoded with a password, and
\* parses the pixel stream as it is otherwise.
C23_BranchSelection ==
    (codec = "png" /\ Len(encs) = 1) =>
        LET stream == image_tobytes(carrier)
        IN  /\ EncodedSealed <=> SubSeq(stream, 1, 8) = ENC_MAGIC
            /\ ~EncodedSealed =>
                  /\ SubSeq(stream, 1, 4) = PNG_MAGIC
                  /\ SubSeq(stream, 5, 8) = <<0, 0, 0, PNG_VERSION>>
            /\ \A t \in Threads :
                LET c == calls[t]
                IN  c.op = "png_decode" =>
                      /\ c.step = "OptionalDecrypt" => EncodedSealed
                      /\ c.step = "ParseHeader" =>
                            c.work = (IF EncodedSealed
                                      THEN png_plain(First.data, First.filename)
                                      ELSE stream)
                      /\ (c.step = "Failed"
                            /\ c.result.at \in {"password", "DecryptionFailedError",
                                                "InvalidPasswordError"})
                            => EncodedSealed
                      /\ (c.step = "Done" /\ EncodedSealed) => ~Falsy(c.password)
                      /\ ~EncodedSealed => c.step # "Failed"

\* a carrier encoded with a password, its envelope opened with that password
\* and the plain stream about to be parsed
C23_Witness ==
    /\ codec = "png"
    /\ Len(encs) = 1
    /\ First.password = "p"
    /\ First.data = <<255, 0>>
    /\ SubSeq(image_tobytes(carrier), 1, 8) = ENC_MAGIC
    /\ calls["a"].op = "png_decode"
    /\ calls["a"].step = "ParseHeader"
    /\ calls["a"].password = "p"
    /\ SubSeq(calls["a"].work, 1, 4) = PNG_MAGIC

\* what AES-GCM had encrypted when the stored carrier was made, before
\* either request arrived
StoredSealed ==
    IF Falsy(First.password) THEN {}
    ELSE {aesgcm_record(derive_key(First.password, First.rnd.salt), First.rnd.nonce,
                        IF codec = "png" THEN png_plain(First.data, First.filename)
                        ELSE mp3_plain(First.data, Mp3Name(First.filename)),
                        First.rnd.ct, First.rnd.tag)}

\* what the call c returns or raises when it is the only call running: the
\* whole function applied to its arguments (and, for an encode with a
\* password, to the random bytes it drew)
Alone(c) ==
    IF c.op = "png_decode" THEN png_decode(StoredSealed, c.input, c.password)
    ELSE IF c.op = "mp3_decode" THEN mp3_decode(StoredSealed, c.input, c.password)
    ELSE IF c.op = "png_encode"
        THEN png_encode(c.input.data, c.input.filename, c.password, c.rnd)
    ELSE mp3_encode(c.input.host, c.input.data, c.input.filename, c.password,
                    c.rnd)

\* C24: whatever the interleaving of the steps of two concurrent calls, each
\* call ends with the result, or the failure, it gives when run alone; a
\* step of one call changes nothing the other call holds, and the file both
\* were given stays as it was.
C24_CallsIndependent ==
    /\ [](\A t \in Threads :
            calls[t].step \in Terminal => calls[t].result = Alone(calls[t]))
    /\ [][\A t \in Threads, u \in Threads :
            (t # u /\ calls'[t] # calls[t]) => calls'[u] = calls[u]]_vars
    /\ [][codec # "none" => (carrier' = carrier /\ encs' = encs)]_vars

\* a sealed carrier decoded with its password by one thread while the other
\* encodes under the same password: both calls are over, the decode returned
\* the stored data and AES-GCM served both
C24_Witness ==
    /\ codec = "mp3"
    /\ Len(encs) = 1
    /\ First.password = "p"
    /\ calls["a"].op = "mp3_decode"
    /\ calls["a"].password = "p"
    /\ calls["a"].step = "Done"
    /\ calls["a"].result.data = ForeignData
    /\ calls["b"].op = "mp3_encode"
    /\ calls["b"].password = "p"
    /\ calls["b"].step = "Done"
    /\ calls["b"].input.data = <<0, 255>>
    /\ calls["b"].result.image_size = 2
    /\ Cardinality(sealed) = 2

\* the bytes of the carrier an encode call returned
OutBytes(call) ==
    IF codec = "png" THEN image_tobytes(call.out.png_bytes) ELSE call.out.mp3_bytes

\* the size fields of an encode result
OutSizes(call) ==
    IF codec = "png"
    THEN <<call.out.image_width, call.out.image_height, call.out.input_size>>
    ELSE <<call.out.mp3_size, call.out.image_size, call.out.total_size>>

\* where the envelope of a sealed call begins in its carrier, counted from 0
EnvelopeAt(call) ==
    IF codec = "png" THEN 0
    ELSE Len(call.out.mp3_bytes) - TAIL_LEN - HEADER_LEN - Len(call.rnd.ct)

C26_GenerationsAgree ==
    codec = "png" =>
        /\ (calls["b"].op = "codec_encode" /\ Falsy(First.password)) =>
            LET old  == calls["b"].result
                name == IF First.filename = <<>> THEN PNG_DEFAULT_NAME
                        ELSE First.filename
            IN  /\ codec_build_header(First.data, name)
                      = png_build_header(First.data, name)
                /\ image_tobytes(old.png_bytes) = image_tobytes(First.out.png_bytes)
                /\ old.png_bytes = First.out.png_bytes
                /\ old.image_width = First.out.image_width
                /\ old.image_height = First.out.image_height
        /\ (calls["a"].op = "codec_decode" /\ dec.done
                /\ SubSeq(image_tobytes(carrier), 1, 8) # ENC_MAGIC) =>
            LET old == calls["a"].result
                new == dec.result
            IN  /\ old.at = new.at
                /\ old.kind = "ok" <=> new.kind = "ok"
                /\ old.data = new.data
                /\ old.filename = new.filename
                /\ old.size = new.size

\* a stream with the right magic, version 3 and a name that overshoots: both
\* decoders stop at the version
C26_Witness ==
    /\ codec = "png"
    /\ damage.kind = "foreign"
    /\ First.password = None
    /\ damage.edit.magic
    /\ ~damage.edit.short
    /\ damage.edit.version = 3
    /\ damage.edit.more_name = Excess
    /\ dec.done
    /\ dec.result = Failed("PngVersionError", "version")
    /\ calls["a"].op = "codec_decode"
    /\ calls["a"].result = Failed("UnsupportedVersionError", "version")

\* the carrier in hand holds a plain block: the pixel stream does not begin
\* with the envelope magic; the audio file ends with the end marker and its
\* last plain start marker lies behind any envelope magic
PlainBlock ==
    IF codec = "png" THEN SubSeq(image_tobytes(carrier), 1, 8) # ENC_MAGIC
    ELSE /\ codec = "mp3"
         /\ EndsWith(carrier, TAIL_MAGIC)
         /\ LET tail_start == Len(carrier) - TAIL_LEN
                magic_pos  == RFind(carrier, MP3_MAGIC, tail_start)
            IN  /\ magic_pos # -1
                /\ RFind(carrier, ENC_MAGIC, tail_start) < magic_pos

\* C27: a password supplied for a carrier whose block is plain has no effect:
\* decode(carrier, password=p) returns the result, or fails with the failure,
\* of decode(carrier), for every password p.
C27_SparePasswordIgnored ==
    (dec.done /\ PlainBlock) =>
        dec.result = IF codec = "png" THEN png_decode(sealed, carrier, None)
                     ELSE mp3_decode(sealed, carrier, None)

\* an audio payload embedded without a password comes back under password "q"
C27_Witness ==
    /\ codec = "mp3"
    /\ Len(encs) = 1
    /\ First.password = None
    /\ First.data = <<0, 255>>
    /\ PlainBlock
    /\ dec.done
    /\ dec.password = "q"
    /\ dec.result.kind = "ok"
    /\ dec.result.data = First.data

\* the first encode got the empty string for a password: encrypt() was not
\* called, nothing was sealed, and the result is what the same call returns
\* without a password
EmptyPasswordIsPlain ==
    (Len(encs) >= 1 /\ First.password = "") =>
        /\ First.rnd = NoRnd
        /\ Len(encs) = 1 => sealed = {}
        /\ First.out = IF codec = "png"
                       THEN png_encode(First.data, First.filename, None, NoRnd)
                       ELSE mp3_encode(First.host, First.data, First.filename,
                                       None, NoRnd)

\* C28: encode with the empty string for a password never raises
\* InvalidPassword and returns exactly the unencrypted carrier the same call
\* without a password returns, and that carrier then decodes without any
\* password.
C28_EmptyPassword ==
    /\ EmptyPasswordIsPlain
    /\ (Len(encs) = 1 /\ First.password = "" /\ dec.done /\ dec.password = None) =>
        /\ dec.result.kind = "ok"
        /\ dec.result.data = First.data

============================================================================
